---- MODULE Spec2Model ----
(***************************************************************************)
(* Blueprint flooring estimator: the shape-capture state machine, the      *)
(* selection ledger with its totals and snapshot, and project              *)
(* export/import.  The repository holds several builds of the estimator;   *)
(* the variable `variant` says which build a behaviour is about:           *)
(*   "sync"   src/app.js and src/unnamed/part_003 (window.prompt inputs;   *)
(*            part_003 adds export/import and projects, src/auth.js is the *)
(*            account widget driving the same export/import),              *)
(*   "modal"  src/unnamed/part_004 lines 1-983 (Feet/Inches modal, pins),  *)
(*   "legacy" src/unnamed/part_002 (pixel geometry, `saved` list).         *)
(* Each build is explored by its own specification; the modal build by     *)
(* two, SpecModal for the rectangle, circle and triangle modes and         *)
(* SpecPoly for the custom-shape (pins) mode, and the sync build by three, *)
(* SpecSync for drawing, SpecProject for saving and loading projects and   *)
(* SpecChat for the chat widget (src/chatbot.js) reading the snapshot.     *)
(*                                                                         *)
(* Numbers.  Lengths are integers counting inches (a stored length of n    *)
(* is n/12 ft).  Areas are integers counting 1/AreaDen sq ft, AreaDen      *)
(* chosen so that w*h, 0.5*b*h and pi*r*r are integers; Math.PI is the     *)
(* rational PiNum/PiDen.  Two-decimal strings ("113.10") are integers      *)
(* counting hundredths.                                                    *)
(***************************************************************************)
EXTENDS Integers, Sequences, FiniteSets, TLC

\* ---------------------------------------------------------------- bounds
MaxSel == 2          \* longest ledger explored
MaxPolySel == 1      \* a polygon draft is begun on a ledger shorter than this
MaxPolyPts == 4      \* most pins of one polygon draft
MaxProjects == 1     \* most saved projects in the store
MaxChatMsgs == 2     \* most chat messages sent in one run
MaxSaves == 2        \* most projects saved by the account actions in one run
MaxTasks == 2        \* most registrations and logins awaiting their hash at once
MaxSalt == 3         \* the last salt a registration may draw

\* ------------------------------------------------------ program constants
MinDragPx == 6
LegacyMinRectPx == 12
LegacyMinRadiusPx == 10
NearTolPx == 10
InchesPerFoot == 12
MaxInches == 11
PiNum == 355
PiDen == 113

SqInPerSqFt == InchesPerFoot * InchesPerFoot
AreaDen == SqInPerSqFt * 2 * PiDen

\* ------------------------------------------------------------ input sets
\* Pointer positions (CSS px).  (0,0)-(4,3) is 5 px apart, below every
\* threshold; (4,3)-(12,16) is 15 px apart but only 8 px wide.
Points == { <<0, 0>>, <<4, 3>>, <<12, 16>> }
NoPoint == << >>

\* Blueprint images a user may pick; NoUrl is "no image".
NoUrl == "none"
Images == { "imgA" }

NoAns == [t |-> "none"]
CancelAns == [t |-> "cancel"]
TextAns == [t |-> "text"]
Num(n) == [t |-> "num", v |-> n]
\* What a user may type into a window.prompt asking for a number.
PromptAnswers == { CancelAns, TextAns, Num(0), Num(-6), Num(6), Num(13) }
\* What a user may type as a label: nothing, or a name.
LabelInputs == { "", "Kitchen" }

NullRes == [t |-> "null"]
NaNRes == [t |-> "nan"]

\* ------------------------------------------------------------ pure helpers
Abs(n) == IF n < 0 THEN -n ELSE n

\* dist(a, b) squared: the code compares Math.sqrt(dx*dx + dy*dy) with a
\* threshold t, which is dx*dx + dy*dy compared with t*t.
Dist2(a, b) == (a[1] - b[1]) * (a[1] - b[1]) + (a[2] - b[2]) * (a[2] - b[2])

\* DragTooSmall with the comparison one pixel short.
DragTooSmallShort(a, b) == Dist2(a, b) < (MinDragPx - 1) * (MinDragPx - 1)

DragTooSmall(a, b) == Dist2(a, b) < MinDragPx * MinDragPx

\* fmt2: Number(n).toFixed(2), as hundredths; ties round away from zero.
Fmt2(a) ==
  LET h == (Abs(a) * 200 + AreaDen) \div (2 * AreaDen)
  IN  IF a < 0 THEN -h ELSE h

RectArea(w, h) == w * h * (AreaDen \div SqInPerSqFt)
CircleArea(r) == (PiNum * r * r * (AreaDen \div SqInPerSqFt)) \div PiDen
TriArea(b, h) == (b * h * (AreaDen \div SqInPerSqFt)) \div 2

\* promptNumber of app.js: null unless the text is a finite number > 0.
PromptNumber(raw) ==
  IF raw.t = "num" /\ raw.v > 0 THEN Num(raw.v) ELSE NullRes

\* promptLabel: the trimmed text, or the default when it is empty.
DefaultLabel(n) == "Area " \o ToString(n)
PromptLabel(input, default) == IF input = "" THEN default ELSE input

RECURSIVE SumAreas(_)
SumAreas(s) == IF s = << >> THEN 0 ELSE s[1].areaSqFt + SumAreas(Tail(s))

RemoveAt(s, i) == SubSeq(s, 1, i - 1) \o SubSeq(s, i + 1, Len(s))
\* Front, taking the first element away instead of the last.
FrontDropsFirst(s) == Tail(s)

\* All but the last element: what pop() leaves.
Front(s) == SubSeq(s, 1, Len(s) - 1)

\* Largest r with r*r <= n, by bisection.
RECURSIVE ISqrtIn(_, _, _)
ISqrtIn(n, lo, hi) ==
  IF lo >= hi THEN lo
  ELSE LET mid == (lo + hi + 1) \div 2
       IN  IF mid * mid <= n THEN ISqrtIn(n, mid, hi) ELSE ISqrtIn(n, lo, mid - 1)
ISqrt(n) == ISqrtIn(n, 0, 46340)

\* ------------------------------------------------------------- geometry
\* The canvas as getBoundingClientRect reports it (CSS px) when the page
\* loads, and the sizes a window resize may give it.
CanvasW == 16
CanvasH == 16
\* Unit-space coordinates are integers counting 1/NormDen.
NormDen == 10 * 10

Max(a, b) == IF a > b THEN a ELSE b
Min(a, b) == IF a < b THEN a ELSE b

\* clamp01
Clamp01(n) == Max(0, Min(NormDen, n))


\* ------------------------------------------------------------------ state
VARIABLES
  variant,        \* which build of the estimator runs
  mode,           \* 'rect' | 'circle' | 'tri' | 'poly'
  isDragging,
  dragStart, dragEnd,
  circleCenter, circleEdge,
  triPoints,
  polyPoints, polySideFeet,
  selections,     \* the ledger (`saved` in the legacy build)
  totalOut, countOut,   \* the displayed total (hundredths) and count
  cards,          \* the selections the list shows, one card each
  pending,        \* the handler suspended at a number prompt, if any
  blueprint,      \* the blueprint image a project would carry (blueprintDataUrl / imgLoaded)
  canvas,         \* the canvas size in CSS px, << width, height >>
  bp,             \* the blueprint on the canvas (blueprintImg), file reads and decodes under way
  projects,       \* the saved projects' `state` fields, as the store holds them
  chat,           \* the chat widget: its build and host, requests in flight, log counts
  relay,          \* the /api/chat handler: the request it serves, what it has sent
  acct,           \* accounts: who is signed in, every owner's projects, the list shown
  last            \* the event handled last, the answer it carried, its outcome

capture == << isDragging, dragStart, dragEnd, circleCenter, circleEdge,
              triPoints, polyPoints, polySideFeet >>
ledger == << selections, totalOut, countOut, cards >>
\* What the handlers of the drawing page never write.
others == << variant, relay, acct, canvas, bp >>
env == << others, chat, blueprint, projects >>
vars == << others, mode, capture, ledger, pending, blueprint, projects, chat, last >>

\* cssToNorm: the point divided by the width and height the canvas has
\* when it is called, clamped.
CssToNorm(p) ==
  << Clamp01((p[1] * NormDen) \div Max(1, canvas[1])),
     Clamp01((p[2] * NormDen) \div Max(1, canvas[2])) >>

\* rNorm of saveCircle: dist(center, edge) over the smaller canvas side.
RNorm(c, e) == ISqrt(Dist2(c, e) * NormDen * NormDen) \div Max(1, Min(canvas[1], canvas[2]))

NoPending == [k |-> "none", modal |-> FALSE]

\* No image on the canvas, no file being read or decoded, no warning given,
\* nothing chosen in the file input or imported (`picked`: the latest
\* choice and whether a project may carry it).
NoBp ==
  [img |-> NoUrl, reads |-> {}, loads |-> {}, warned |-> {},
   picked |-> [name |-> NoUrl, persist |-> FALSE]]

\* A handler suspended at the prompt `k`: the label it already asked for,
\* the answers it holds in its locals and the points it was called with.
\* For the side prompt of a pin, `pts` and `vals` are the draft as it was
\* before the pin was added.  `size` is history, not a local: the canvas
\* size when the handler was called.
Ask(k, label, vals, pts) ==
  [k |-> k, modal |-> (variant = "modal"), label |-> label, vals |-> vals,
   pts |-> pts,
   size |-> IF pending.k = "none" THEN canvas ELSE pending.size]

\* window.prompt blocks the page: nothing else is handled until it returns.
Blocked == pending.k # "none" /\ ~pending.modal
\* modalBusy of part_004: a Feet/Inches modal is open.
ModalBusy == pending.k # "none" /\ pending.modal

\* The ledger bound: no new shape is begun on a full ledger.
CanDraw == Len(selections) < (IF mode = "poly" THEN MaxPolySel ELSE MaxSel)

\* `out` is what the handler showed the user beyond the status line:
\* "alert" for an alert(), "throw" for an exception nothing caught.
\* `ans` is what the event carried: the answer typed, the card clicked, the
\* key pressed; for undo and clear, the length of the ledger they found.
Ev(op) == [op |-> op, ans |-> NoAns, out |-> "none"]
EvAns(op, a) == [op |-> op, ans |-> a, out |-> "none"]
EvOut(op, a, o) == [op |-> op, ans |-> a, out |-> o]

\* recomputeTotals: the displayed total and count follow the ledger, and
\* the list is rebuilt with one card per selection.
RecomputeTotals(sel) ==
  /\ selections' = sel
  /\ totalOut' = Fmt2(SumAreas(sel))
  /\ countOut' = Len(sel)
  /\ cards' = sel

\* getEstimatorSnapshot handing out each selection's geo as well.
SnapshotWithGeo(sel) ==
  [ totalSqFt |-> Fmt2(SumAreas(sel)),
    selectionsCount |-> Len(sel),
    selections |-> [ i \in 1..Len(sel) |->
        [ label |-> sel[i].label, type |-> sel[i].type, geo |-> sel[i].geo,
          areaSqFt |-> Fmt2(sel[i].areaSqFt), real |-> sel[i].real ] ] ]

\* getEstimatorSnapshot (sync and modal builds)
Snapshot(sel) ==
  [ totalSqFt |-> Fmt2(SumAreas(sel)),
    selectionsCount |-> Len(sel),
    selections |-> [ i \in 1..Len(sel) |->
        [ label |-> sel[i].label, type |-> sel[i].type,
          areaSqFt |-> Fmt2(sel[i].areaSqFt), real |-> sel[i].real ] ] ]

\* The objects saveRect, saveCircle and saveTriangle push; `pts` are the
\* CSS points the function was called with.
RectSel(label, pts, w, h) ==
  [ type |-> "rect", label |-> label,
    geo |-> [p1 |-> CssToNorm(pts[1]), p2 |-> CssToNorm(pts[2])],
    real |-> [widthFt |-> w, heightFt |-> h], areaSqFt |-> RectArea(w, h) ]
CircleSel(label, pts, r) ==
  [ type |-> "circle", label |-> label,
    geo |-> [c |-> CssToNorm(pts[1]), r |-> RNorm(pts[1], pts[2])],
    real |-> [radiusFt |-> r], areaSqFt |-> CircleArea(r) ]
TriSel(label, pts, b, h) ==
  [ type |-> "tri", label |-> label,
    geo |-> [a |-> CssToNorm(pts[1]), b |-> CssToNorm(pts[2]), c |-> CssToNorm(pts[3])],
    real |-> [baseFt |-> b, heightFt |-> h], areaSqFt |-> TriArea(b, h) ]

\* JSON values as a request body or a project file holds them; Undef is
\* `undefined`, where a value is missing.
Undef == [t |-> "undefined"]
JStr(s) == [t |-> "str", s |-> s]
JNum(n) == [t |-> "num", v |-> n]
JText == [t |-> "text"]
JList(items) == [t |-> "list", items |-> items]

\* drawSelections reads s.geo.p1, s.geo.c or s.geo.a of every rect, circle
\* and tri: render() throws when such a selection has no geo.
RenderThrows(sel) ==
  \E i \in 1..Len(sel) : sel[i].type \in {"rect", "circle", "tri"} /\ sel[i].geo = Undef

Modes == IF variant = "modal" THEN {"rect", "circle", "tri", "poly"}
         ELSE {"rect", "circle", "tri"}

InitCommon ==
  /\ mode = "rect"
  /\ isDragging = FALSE
  /\ dragStart = NoPoint /\ dragEnd = NoPoint
  /\ circleCenter = NoPoint /\ circleEdge = NoPoint
  /\ triPoints = << >>
  /\ polyPoints = << >> /\ polySideFeet = << >>
  /\ selections = << >>
  /\ totalOut = 0 /\ countOut = 0
  /\ cards = << >>
  /\ pending = NoPending
  /\ blueprint = NoUrl
  /\ bp = NoBp
  /\ canvas = << CanvasW, CanvasH >>
  /\ last = Ev("init")

\* ------------------------------------------------- mode / undo / clear
\* shapeModeEl 'change'
ModeChange(m) ==
  /\ variant \in {"sync", "modal"} /\ ~Blocked
  /\ m \in Modes /\ m # mode
  /\ mode' = m
  /\ isDragging' = FALSE
  /\ dragStart' = NoPoint /\ dragEnd' = NoPoint
  /\ circleCenter' = NoPoint /\ circleEdge' = NoPoint
  /\ triPoints' = << >>
  /\ polyPoints' = << >> /\ polySideFeet' = << >>
  /\ last' = Ev("modechange")
  /\ UNCHANGED << env, ledger, pending >>

\* undoBtn 'click': returns at once on an empty ledger.
Undo ==
  /\ variant \in {"sync", "modal"} /\ ~Blocked
  /\ IF selections = << >> THEN UNCHANGED ledger
     ELSE RecomputeTotals(Front(selections))
  /\ last' = EvAns("undo", Num(Len(selections)))
  /\ UNCHANGED << env, mode, capture, pending >>

\* clearBtn 'click' taking only the last selection away.
ClearPopsLast ==
  /\ variant \in {"sync", "modal"} /\ ~Blocked
  /\ RecomputeTotals(Front(selections))
  /\ last' = EvAns("clear", Num(Len(selections)))
  /\ UNCHANGED << env, mode, capture, pending >>

\* clearBtn 'click'
Clear ==
  /\ variant \in {"sync", "modal"} /\ ~Blocked
  /\ RecomputeTotals(<< >>)
  /\ last' = EvAns("clear", Num(Len(selections)))
  /\ UNCHANGED << env, mode, capture, pending >>

\* selections.splice(i, 1), i counted from 1: nothing goes past the end.
Splice1(s, i) == IF i \in 1..Len(s) THEN RemoveAt(s, i) ELSE s

\* The Remove button of card i, as built by the last recomputeTotals: it
\* splices at the index the card was built with.
Remove(i) ==
  /\ variant \in {"sync", "modal"} /\ ~Blocked
  /\ i \in 1..Len(cards)
  /\ RecomputeTotals(Splice1(selections, i))
  /\ last' = EvAns("remove", Num(i))
  /\ UNCHANGED << env, mode, capture, pending >>

\* ------------------------------------------------------ prompts (modal)
\* What the Feet and Inches boxes may hold when OK is pressed.
FtIn(f, i) == [t |-> "ftin", feet |-> f, inches |-> i]
ModalInputs == { FtIn(TextAns, Num(0)), FtIn(Num(-1), Num(0)), FtIn(Num(0), Num(0)),
                 FtIn(Num(0), Num(12)), FtIn(Num(0), Num(6)), FtIn(Num(1), Num(1)) }

RejectRes == [t |-> "reject"]

\* onOk as if every caller passed allowZero: a total of 0 is let through.
ModalValueAllowZero(inp) ==
  IF inp.feet.t # "num" \/ inp.feet.v < 0 THEN RejectRes
  ELSE IF inp.inches.t # "num" \/ inp.inches.v < 0 \/ inp.inches.v > MaxInches THEN RejectRes
  ELSE Num(inp.feet.v * InchesPerFoot + inp.inches.v)

\* onOk of askLengthFeetInches: the decimal feet (here inches) the modal
\* closes with, or "reject" when it shows an error and stays open.
ModalValue(inp) ==
  IF inp.feet.t # "num" \/ inp.feet.v < 0 THEN RejectRes
  ELSE IF inp.inches.t # "num" \/ inp.inches.v < 0 \/ inp.inches.v > MaxInches THEN RejectRes
  ELSE IF inp.feet.v * InchesPerFoot + inp.inches.v <= 0 THEN RejectRes
  ELSE Num(inp.feet.v * InchesPerFoot + inp.inches.v)

\* ------------------------------------------------------- pointer events
\* canvas 'mousedown'
MouseDown(p) ==
  /\ variant \in {"sync", "modal"} /\ ~Blocked
  /\ p \in Points
  /\ mode \in {"rect", "circle"}
  /\ CanDraw
  /\ last' = Ev("mousedown")
  /\ IF mode = "rect"
       THEN /\ isDragging' = TRUE /\ dragStart' = p /\ dragEnd' = p
            /\ UNCHANGED << circleCenter, circleEdge >>
     ELSE /\ isDragging' = TRUE /\ circleCenter' = p /\ circleEdge' = p
          /\ UNCHANGED << dragStart, dragEnd >>
  /\ UNCHANGED << env, mode, triPoints, polyPoints, polySideFeet, ledger, pending >>

\* canvas 'mousemove'
MouseMove(p) ==
  /\ variant \in {"sync", "modal"} /\ ~Blocked
  /\ p \in Points
  /\ mode # "poly" /\ isDragging
  /\ last' = Ev("mousemove")
  /\ IF mode = "rect" /\ dragStart # NoPoint
       THEN dragEnd' = p /\ UNCHANGED circleEdge
     ELSE IF mode = "circle" /\ circleCenter # NoPoint
       THEN circleEdge' = p /\ UNCHANGED dragEnd
     ELSE UNCHANGED << dragEnd, circleEdge >>
  /\ UNCHANGED << env, mode, isDragging, dragStart, circleCenter, triPoints,
                  polyPoints, polySideFeet, ledger, pending >>

\* The end of the 'mouseup' handler, from its circle branch on: run when the
\* rect branch finished.  `pend` is the prompt open now, `sel` the ledger now.
MouseUpTail(pend, lab, sel) ==
  IF /\ mode = "circle" /\ circleCenter # NoPoint /\ circleEdge # NoPoint
     /\ ~DragTooSmall(circleCenter, circleEdge)
     /\ pend.k = "none"
  THEN /\ pending' = Ask("circR", PromptLabel(lab, DefaultLabel(Len(sel) + 1)),
                         << >>, << circleCenter, circleEdge >>)
       /\ UNCHANGED << dragStart, dragEnd, circleCenter, circleEdge >>
  ELSE /\ pending' = pend
       /\ dragStart' = NoPoint /\ dragEnd' = NoPoint
       /\ circleCenter' = NoPoint /\ circleEdge' = NoPoint

\* canvas 'mouseup'
MouseUp(lab) ==
  /\ variant \in {"sync", "modal"} /\ ~Blocked
  /\ lab \in LabelInputs
  /\ isDragging
  /\ last' = Ev("mouseup")
  /\ UNCHANGED << env, mode, triPoints, polyPoints, polySideFeet, ledger >>
  /\ isDragging' = FALSE
  /\ IF /\ mode = "rect" /\ dragStart # NoPoint /\ dragEnd # NoPoint
        /\ ~DragTooSmall(dragStart, dragEnd)
        /\ ~ModalBusy
       THEN /\ pending' = Ask("rectW", PromptLabel(lab, DefaultLabel(Len(selections) + 1)),
                              << >>, << dragStart, dragEnd >>)
            /\ UNCHANGED << dragStart, dragEnd, circleCenter, circleEdge >>
     ELSE MouseUpTail(pending, lab, selections)

Near(p, first) == Dist2(p, first) <= NearTolPx * NearTolPx

\* finishPolygonAskClosingAndSave, up to its await.
FinishPolygonAskClosing ==
  /\ IF mode = "poly" /\ Len(polyPoints) >= 3 /\ ~ModalBusy
       THEN pending' = Ask("polyClose", "", << >>, << >>)
     ELSE UNCHANGED pending
  /\ UNCHANGED << isDragging, dragStart, dragEnd, circleCenter, circleEdge,
                  triPoints, polyPoints, polySideFeet >>

\* canvas 'click'
Click(p, lab) ==
  /\ variant \in {"sync", "modal"} /\ ~Blocked
  /\ p \in Points /\ lab \in LabelInputs
  /\ mode = "tri" \/ (mode = "poly" /\ variant = "modal")
  /\ CanDraw
  /\ last' = Ev("click")
  /\ UNCHANGED << env, mode, ledger >>
  /\ IF mode = "tri"
       THEN /\ IF Len(triPoints) < 2
                 THEN triPoints' = Append(triPoints, p) /\ UNCHANGED pending
               ELSE /\ triPoints' = << >>
                    /\ IF ModalBusy THEN UNCHANGED pending
                       ELSE pending' = Ask("triB", PromptLabel(lab, DefaultLabel(Len(selections) + 1)),
                                           << >>, Append(triPoints, p))
            /\ UNCHANGED << isDragging, dragStart, dragEnd, circleCenter, circleEdge,
                            polyPoints, polySideFeet >>
     ELSE IF mode = "poly"
       THEN IF Len(polyPoints) >= 3 /\ Near(p, polyPoints[1])
              THEN FinishPolygonAskClosing
            ELSE /\ Len(polyPoints) < MaxPolyPts
                 /\ IF Len(polyPoints) >= 1 /\ ModalBusy
                      THEN UNCHANGED << polyPoints, pending >>
                    ELSE /\ polyPoints' = Append(polyPoints, p)
                         /\ IF Len(polyPoints) >= 1
                              THEN pending' = Ask("polySide", "", polySideFeet, polyPoints)
                            ELSE UNCHANGED pending
                 /\ UNCHANGED << isDragging, dragStart, dragEnd, circleCenter, circleEdge,
                                 triPoints, polySideFeet >>
     ELSE FALSE

\* canvas 'dblclick' (modal build)
DblClick ==
  /\ variant = "modal" /\ ~Blocked
  /\ mode = "poly"
  /\ last' = Ev("dblclick")
  /\ FinishPolygonAskClosing
  /\ UNCHANGED << env, mode, ledger >>

\* resetPolygonDraft with only the pins dropped.
ResetPolygonDraftPinsOnly == polyPoints' = << >> /\ UNCHANGED polySideFeet

\* resetPolygonDraft
ResetPolygonDraft == polyPoints' = << >> /\ polySideFeet' = << >>

\* window 'keydown' (modal build), with no modal open and the focus outside
\* any input: Enter finishes the polygon, Escape drops the draft.
KeyDown(key) ==
  /\ variant = "modal" /\ ~Blocked /\ ~ModalBusy
  /\ key \in {"Enter", "Escape"}
  /\ mode = "poly"
  /\ last' = EvAns("keydown", [t |-> "key", key |-> key, pins |-> Len(polyPoints)])
  /\ UNCHANGED << env, mode, ledger >>
  /\ IF key = "Enter" THEN FinishPolygonAskClosing
     ELSE IF polyPoints # << >>
       THEN /\ ResetPolygonDraft
            /\ UNCHANGED << isDragging, dragStart, dragEnd, circleCenter, circleEdge,
                            triPoints, pending >>
     ELSE UNCHANGED << capture, pending >>

\* ------------------------------------------------------- polygon areas
\* heronArea without its guard: an impossible triangle gets area 0.
HeronAreaUnguarded(a, b, c) ==
  LET r16 == (a + b + c) * (b + c - a) * (a + c - b) * (a + b - c)
      k == AreaDen \div SqInPerSqFt
  IN  IF r16 <= 0 THEN Num(0) ELSE Num((ISqrt(r16 * 10000) * k) \div 400)

\* heronArea: null when s(s-a)(s-b)(s-c) <= 0, else its square root.
\* 16 times the radicand is (a+b+c)(-a+b+c)(a-b+c)(a+b-c).
HeronArea(a, b, c) ==
  LET r16 == (a + b + c) * (b + c - a) * (a + c - b) * (a + b - c)
      k == AreaDen \div SqInPerSqFt
  IN  IF r16 <= 0 THEN NullRes ELSE Num((ISqrt(r16 * 10000) * k) \div 400)

\* trapezoidArea
TrapezoidArea(b1, b2, h) == ((b1 + b2) * h * (AreaDen \div SqInPerSqFt)) \div 2

PolySel(label, pts, sides, method, details, area) ==
  [ type |-> "poly", label |-> label,
    geo |-> [points |-> [ i \in 1..Len(pts) |-> CssToNorm(pts[i]) ]],
    real |-> [sideFeet |-> sides, method |-> method, details |-> details],
    areaSqFt |-> area ]

\* The first letter of the text typed at the 4-sides prompt, lower-cased.
Str(c) == [t |-> "str", first |-> c]
ChoiceAnswers == { CancelAns, Str(""), Str("r"), Str("t"), Str("i"), Str("x") }
\* computePolyAreaFromUser with R taken for every answer that names no method.
ParseChoiceDefaultsToR(raw) ==
  IF raw.t # "str" THEN "rectangle"
  ELSE IF raw.first = "t" THEN "trapezoid"
  ELSE IF raw.first = "i" THEN "irregular"
  ELSE "rectangle"

\* computePolyAreaFromUser: the method that the trimmed, lower-cased answer
\* names by its first letter, if any.
ParseChoice(raw) ==
  IF raw.t # "str" THEN "none"
  ELSE IF raw.first = "r" THEN "rectangle"
  ELSE IF raw.first = "t" THEN "trapezoid"
  ELSE IF raw.first = "i" THEN "irregular"
  ELSE "none"

\* Totals typed at a manual-area prompt, in whole sq ft.
AreaAnswers == { CancelAns, TextAns, Num(0), Num(-1), Num(2) }
\* promptAreaSqFt
PromptAreaSqFt(raw) ==
  IF raw.t = "num" /\ raw.v > 0 THEN Num(raw.v * AreaDen) ELSE NullRes

\* selections.push(...); recomputeTotals()
Push(sel) ==
  /\ Len(selections) < MaxSel
  /\ RecomputeTotals(Append(selections, sel))

KeepDrag == UNCHANGED << dragStart, dragEnd, circleCenter, circleEdge >>
KeepPoly == UNCHANGED << polyPoints, polySideFeet >>

\* finishPolygonAndSave without its check that every point has a side.
FinishPolygonAndSaveUnchecked(pts, sides, lab) ==
  IF Len(pts) < 3
    THEN pending' = NoPending /\ UNCHANGED ledger
  ELSE IF Len(sides) = 3
    THEN LET a == HeronArea(sides[1], sides[2], sides[3])
         IN  /\ pending' = NoPending
             /\ IF a = NullRes THEN UNCHANGED ledger
                ELSE Push(PolySel(PromptLabel(lab, DefaultLabel(Len(selections) + 1)), pts, sides,
                                  "triangle (3 sides)", [sides |-> sides], a.v))
  ELSE /\ pending' = [ k |-> IF Len(sides) = 4 THEN "polyChoice" ELSE "polyManual",
                       modal |-> FALSE, label |-> "", vals |-> sides, pts |-> pts ]
       /\ UNCHANGED ledger

\* finishPolygonAndSave(pts, sideFeet), up to the first prompt it blocks on.
FinishPolygonAndSave(pts, sides, lab) ==
  IF Len(pts) < 3 \/ Len(sides) # Len(pts)
    THEN pending' = NoPending /\ UNCHANGED ledger
  ELSE IF Len(sides) = 3
    THEN LET a == HeronArea(sides[1], sides[2], sides[3])
         IN  /\ pending' = NoPending
             /\ IF a = NullRes THEN UNCHANGED ledger
                ELSE Push(PolySel(PromptLabel(lab, DefaultLabel(Len(selections) + 1)), pts, sides,
                                  "triangle (3 sides)", [sides |-> sides], a.v))
  ELSE /\ pending' = [ k |-> IF Len(sides) = 4 THEN "polyChoice" ELSE "polyManual",
                       modal |-> FALSE, label |-> "", vals |-> sides, pts |-> pts ]
       /\ UNCHANGED ledger

\* The handler suspended in `pending` goes on with the prompt's result `res`
\* (NullRes or Num(v)); `lab` is what the user types at a label prompt the
\* handler opens from here on.
Resume(res, lab) ==
  LET k == pending.k
      lbl == pending.label
      vs == pending.vals
      newLabel == PromptLabel(lab, DefaultLabel(Len(selections) + 1))
  IN
  IF k = "rectW" THEN
       /\ KeepPoly /\ UNCHANGED ledger
       /\ IF res = NullRes THEN MouseUpTail(NoPending, lab, selections)
          ELSE pending' = Ask("rectH", lbl, << res.v >>, pending.pts) /\ KeepDrag
  ELSE IF k = "rectH" THEN
       /\ KeepPoly
       /\ IF res = NullRes
            THEN UNCHANGED ledger /\ MouseUpTail(NoPending, lab, selections)
          ELSE /\ Push(RectSel(lbl, pending.pts, vs[1], res.v))
               /\ IF RenderThrows(selections)
                    THEN pending' = NoPending /\ KeepDrag
                  ELSE MouseUpTail(NoPending, lab,
                                   Append(selections, RectSel(lbl, pending.pts, vs[1], res.v)))
  ELSE IF k = "circR" THEN
       /\ KeepPoly
       /\ pending' = NoPending
       /\ IF res # NullRes /\ RenderThrows(selections) THEN KeepDrag
          ELSE /\ dragStart' = NoPoint /\ dragEnd' = NoPoint
               /\ circleCenter' = NoPoint /\ circleEdge' = NoPoint
       /\ IF res = NullRes THEN UNCHANGED ledger ELSE Push(CircleSel(lbl, pending.pts, res.v))
  ELSE IF k = "triB" THEN
       /\ KeepPoly /\ KeepDrag /\ UNCHANGED ledger
       /\ pending' = IF res = NullRes THEN NoPending
                     ELSE Ask("triH", lbl, << res.v >>, pending.pts)
  ELSE IF k = "triH" THEN
       /\ KeepPoly /\ KeepDrag
       /\ pending' = NoPending
       /\ IF res = NullRes THEN UNCHANGED ledger ELSE Push(TriSel(lbl, pending.pts, vs[1], res.v))
  ELSE IF k = "polySide" THEN
       /\ KeepDrag /\ UNCHANGED ledger
       /\ pending' = NoPending
       /\ IF res = NullRes
            THEN /\ polyPoints' = IF polyPoints = << >> THEN << >> ELSE Front(polyPoints)
                 /\ UNCHANGED polySideFeet
          ELSE /\ polySideFeet' = Append(polySideFeet, res.v)
               /\ UNCHANGED polyPoints
  ELSE IF k = "polyClose" THEN
       /\ KeepDrag
       /\ IF res = NullRes
            THEN pending' = NoPending /\ KeepPoly /\ UNCHANGED ledger
          ELSE /\ polyPoints' = << >> /\ polySideFeet' = << >>
               /\ FinishPolygonAndSave(polyPoints, Append(polySideFeet, res.v), lab)
  ELSE IF k = "polyChoice" THEN
       /\ KeepDrag /\ KeepPoly
       /\ IF res = "rectangle"
            THEN /\ pending' = NoPending
                 /\ Push(PolySel(newLabel, pending.pts, vs, "rectangle/square (adjacent sides)",
                                 [length |-> vs[1], width |-> vs[2], sides |-> vs],
                                 RectArea(vs[1], vs[2])))
          ELSE IF res = "trapezoid"
            THEN /\ pending' = [ k |-> "trapTop", modal |-> TRUE, label |-> "",
                                 vals |-> vs, pts |-> pending.pts, got |-> << >> ]
                 /\ UNCHANGED ledger
          ELSE IF res = "irregular"
            THEN /\ pending' = [pending EXCEPT !.k = "polyManual"]
                 /\ UNCHANGED ledger
          ELSE pending' = NoPending /\ UNCHANGED ledger
  ELSE IF k \in {"trapTop", "trapBottom"} THEN
       /\ KeepDrag /\ KeepPoly /\ UNCHANGED ledger
       /\ pending' = IF res = NullRes THEN NoPending
                     ELSE [pending EXCEPT !.k = IF k = "trapTop" THEN "trapBottom" ELSE "trapH",
                                          !.got = Append(@, res.v)]
  ELSE IF k = "trapH" THEN
       /\ KeepDrag /\ KeepPoly
       /\ pending' = NoPending
       /\ IF res = NullRes THEN UNCHANGED ledger
          ELSE Push(PolySel(newLabel, pending.pts, vs, "trapezoid (bases + height)",
                            [topBase |-> pending.got[1], bottomBase |-> pending.got[2],
                             height |-> res.v, sides |-> vs],
                            TrapezoidArea(pending.got[1], pending.got[2], res.v)))
  ELSE \* "polyManual"
       /\ KeepDrag /\ KeepPoly
       /\ pending' = NoPending
       /\ IF res = NullRes THEN UNCHANGED ledger
          ELSE Push(PolySel(newLabel, pending.pts, vs,
                            IF Len(vs) = 4 THEN "manual area (irregular quad)"
                            ELSE "manual area (5+ sides)",
                            [areaSqFt |-> res.v, sides |-> vs], res.v))

\* What may be typed at the window.prompt that is open.
AnswersFor(k) ==
  IF k = "polyChoice" THEN ChoiceAnswers
  ELSE IF k = "polyManual" THEN AreaAnswers
  ELSE PromptAnswers

\* The open window.prompt returns `raw`; the handler goes on.
AnswerPrompt(raw, lab) ==
  /\ Blocked
  /\ variant \in {"sync", "modal"}
  /\ raw \in AnswersFor(pending.k) /\ lab \in LabelInputs
  /\ last' = EvAns("answer", raw)
  /\ Resume(IF pending.k = "polyChoice" THEN ParseChoice(raw)
            ELSE IF pending.k = "polyManual" THEN PromptAreaSqFt(raw)
            ELSE PromptNumber(raw), lab)
  /\ UNCHANGED << env, mode, isDragging, triPoints >>

\* OK (or Enter) in the Feet/Inches modal.
ModalOk(inp, lab) ==
  /\ ModalBusy
  /\ inp \in ModalInputs /\ lab \in LabelInputs
  /\ last' = EvAns("answer", inp)
  /\ IF ModalValue(inp) = RejectRes
       THEN UNCHANGED << capture, ledger, pending >>
     ELSE Resume(ModalValue(inp), lab) /\ UNCHANGED << isDragging, triPoints >>
  /\ UNCHANGED << env, mode >>

\* Cancel that leaves the modal open and modalBusy set.
ModalCancelStaysOpen(lab) ==
  /\ ModalBusy
  /\ lab \in LabelInputs
  /\ last' = EvAns("answer", CancelAns)
  /\ UNCHANGED << env, mode, capture, ledger, pending >>

\* Cancel (or Escape) in the Feet/Inches modal.
ModalCancel(lab) ==
  /\ ModalBusy
  /\ lab \in LabelInputs
  /\ last' = EvAns("answer", CancelAns)
  /\ Resume(NullRes, lab)
  /\ UNCHANGED << env, mode, isDragging, triPoints >>

\* ------------------------------------------------------ blueprint image
\* blueprintInput 'change' with an image file, through to img.onload: the
\* image is shown; the ledger and the capture state are not touched.
BlueprintChange(file) ==
  /\ variant \in {"sync", "modal"} /\ ~Blocked
  /\ file \in Images
  /\ blueprint' = file
  /\ bp' = [bp EXCEPT !.img = file, !.picked = [name |-> file, persist |-> TRUE]]
  /\ last' = EvAns("blueprint", [t |-> "str", s |-> file])
  /\ UNCHANGED << variant, relay, acct, canvas, chat, projects, mode, capture, ledger, pending >>

\* ---------------------------------------------------------- window resize
\* window 'resize': the layout gives the canvas a new size;
\* fitCanvasToWrap refits the backing store and render() redraws.  Nothing
\* the handlers keep is written.  No event is handled while a
\* window.prompt blocks the page.
ResizeResetsDraft(size) ==
  /\ variant \in {"sync", "modal"} /\ ~Blocked
  /\ canvas' = size
  /\ last' = EvAns("resize", [t |-> "size", w |-> size[1], h |-> size[2]])
  /\ isDragging' = FALSE
  /\ dragStart' = NoPoint /\ dragEnd' = NoPoint
  /\ circleCenter' = NoPoint /\ circleEdge' = NoPoint
  /\ triPoints' = << >>
  /\ UNCHANGED << variant, relay, acct, bp, chat, blueprint, projects,
                  mode, polyPoints, polySideFeet, ledger, pending >>

Resize(size) ==
  /\ variant \in {"sync", "modal"} /\ ~Blocked
  /\ canvas' = size
  /\ last' = EvAns("resize", [t |-> "size", w |-> size[1], h |-> size[2]])
  /\ UNCHANGED << variant, relay, acct, bp, chat, blueprint, projects,
                  mode, capture, ledger, pending >>

\* ------------------------------------------------------------- chat widget
\* What may be typed into the chat box.
ChatTexts == { "", "total?" }

\* How a request to the relay can end: a body with a reply, a JSON body
\* without one, a non-2xx status with a JSON error body, a body that is
\* not JSON, or a network failure.
ChatOutcomes == { "reply", "noreply", "status", "malformed", "reject" }

\* The builds of the widget: "form" disables the controls while it waits
\* (chatbot.js 75-101 and 177-205, part_000), "onclick" (chatbot.js
\* 239-263) and "send" (chatbot.js 277-309) do not.
ChatBuilds == { "form", "onclick", "send" }

\* The assistant message a settled request ends with: the reply, a stock
\* sentence for a body without reply, or the failure notice of the catch.
\* Only the form build looks at res.ok; the others parse the error body and
\* find no reply in it.
ChatShown(build, outcome) ==
  IF outcome = "reply" THEN "reply"
  ELSE IF outcome = "noreply" THEN "fallback"
  ELSE IF outcome = "status" /\ build # "form" THEN "fallback"
  ELSE "notice"

\* chatForm 'submit' / chatSend click / Enter in the input: an empty
\* message is dropped; on GitHub Pages the form build answers with a notice
\* at once; otherwise the snapshot is taken and posted, and the form build
\* disables the send button and the input until the request settles.
ChatSubmit(text) ==
  /\ variant = "sync" /\ ~Blocked
  /\ text \in ChatTexts
  /\ ~chat.disabled
  /\ IF text = ""
       THEN /\ last' = EvAns("chatsubmit", JStr(text))
            /\ UNCHANGED chat
     ELSE /\ chat.sent < MaxChatMsgs
          /\ IF chat.build = "form" /\ chat.host = "pages"
               THEN /\ last' = EvOut("chatsubmit", JStr(text), "notice")
                    /\ chat' = [chat EXCEPT !.sent = @ + 1, !.replies = @ + 1]
             ELSE /\ last' = EvAns("chatsubmit", Snapshot(selections))
                  /\ chat' = [chat EXCEPT !.sent = @ + 1, !.inflight = @ + 1,
                                          !.disabled = (chat.build = "form")]
  /\ UNCHANGED << others, blueprint, projects, mode, capture, ledger, pending >>

\* The form build without its `finally`: a failed request leaves the
\* controls disabled.
ChatSettleNoFinally(outcome) ==
  /\ variant = "sync" /\ ~Blocked
  /\ outcome \in ChatOutcomes
  /\ chat.inflight > 0
  /\ chat' = [chat EXCEPT !.inflight = @ - 1, !.replies = @ + 1,
                          !.disabled = @ /\ ChatShown(chat.build, outcome) = "notice"]
  /\ last' = EvOut(IF outcome = "reply" THEN "chatreply" ELSE "chaterror", NoAns,
                   ChatShown(chat.build, outcome))
  /\ UNCHANGED << others, blueprint, projects, mode, capture, ledger, pending >>

\* A request settles: one assistant message is added to the chat log and
\* the form build enables its controls again.
ChatSettle(outcome) ==
  /\ variant = "sync" /\ ~Blocked
  /\ outcome \in ChatOutcomes
  /\ chat.inflight > 0
  /\ chat' = [chat EXCEPT !.inflight = @ - 1, !.replies = @ + 1, !.disabled = FALSE]
  /\ last' = EvOut(IF outcome = "reply" THEN "chatreply" ELSE "chaterror", NoAns,
                   ChatShown(chat.build, outcome))
  /\ UNCHANGED << others, blueprint, projects, mode, capture, ledger, pending >>

\* A script that called window.getEstimatorSnapshot() writes `v` into the
\* measurements of entry i of the object it got: `real: s.real` hands out
\* the ledger's own record, so the write lands in the ledger.
SnapshotRealWrite(i, v) ==
  /\ variant = "sync" /\ ~Blocked
  /\ i \in 1..Len(selections)
  /\ selections' = [selections EXCEPT ![i].real = [f \in DOMAIN @ |-> v]]
  /\ last' = EvAns("snapwrite", Num(i))
  /\ UNCHANGED << env, mode, capture, totalOut, countOut, cards, pending >>

\* The same script writes to the snapshot itself or to one of its entries
\* (label, type, areaSqFt): these are fresh objects, the ledger is untouched.
SnapshotEntryWrite(i) ==
  /\ variant = "sync" /\ ~Blocked
  /\ i \in 1..Len(selections)
  /\ last' = EvAns("snapedit", Num(i))
  /\ UNCHANGED << env, mode, capture, ledger, pending >>

\* --------------------------------------------------------- /api/chat relay
\* The builds of the handler: "responses" (api/chat.js 1-90), "loop"
\* (92-181), "text" (183-245), "context" (247-303) and "bare" (part_001).
RelayBuilds == { "responses", "loop", "text", "context", "bare" }

\* A request: its method, its body (none; no message; message ''; message
\* 42; a message text) and whether OPENAI_API_KEY is set on the server.
RelayMethods == { "GET", "POST" }
RelayBodies == { "nobody", "nomessage", "empty", "number", "text" }

\* What the upstream call can give: 2xx with output_text, 2xx with text
\* only inside `output`, 2xx with no text, 2xx with a body that is not
\* JSON, non-2xx with a JSON error, non-2xx with another body, or a fetch
\* that rejects.  Without a key the upstream never answers 2xx.
RelayUpstreams == { "text", "output", "notext", "okgarbage", "error", "errorgarbage", "reject" }
RelayUpstreamsFor(key) ==
  IF key THEN RelayUpstreams ELSE { "error", "errorgarbage", "reject" }

IdleRelay(build) ==
  [ build |-> build, phase |-> "idle", req |-> [t |-> "none"], up |-> "none", sent |-> << >> ]

\* res.status(code).json({ error, ... }) and res.status(200).json({ reply })
RelayError(code) == [ status |-> code, field |-> "error", reply |-> "none" ]
RelayReply(text) == [ status |-> 200, field |-> "reply", reply |-> text ]

\* The handler up to its await of fetch: what it answers at once, if
\* anything.  The bare build checks the method only and throws on
\* destructuring a missing body; the context build does not look at the key.
RelayEarly(build, method, body, key) ==
  IF method # "POST" THEN RelayError(405)
  ELSE IF build = "bare"
    THEN IF body = "nobody" THEN RelayError(500) ELSE NoAns
  ELSE IF body # "text" THEN RelayError(400)
  ELSE IF build # "context" /\ ~key THEN RelayError(500)
  ELSE NoAns

\* The handler after its await of fetch.
RelayLate(build, outcome) ==
  IF outcome = "reject" THEN RelayError(500)
  ELSE IF build = "responses"
    THEN IF outcome \in {"okgarbage", "errorgarbage", "error"} THEN RelayError(500)
         ELSE RelayReply(IF outcome = "notext" THEN "stock" ELSE "model")
  ELSE IF build = "loop"
    THEN IF outcome \in {"okgarbage", "errorgarbage", "error"} THEN RelayError(500)
         ELSE RelayReply(IF outcome = "notext" THEN "stock" ELSE "model")
  ELSE IF build = "text"
    THEN IF outcome \in {"errorgarbage", "error"} THEN RelayError(500)
         ELSE RelayReply(IF outcome = "text" THEN "model" ELSE "stock")
  ELSE IF build = "context"
    THEN IF outcome \in {"okgarbage", "errorgarbage", "error"} THEN RelayError(500)
         ELSE RelayReply(IF outcome = "text" THEN "model" ELSE "stock")
  ELSE \* "bare": no look at r.ok; res.json({ reply: data.output_text || 'No reply.' })
       IF outcome \in {"okgarbage", "errorgarbage"} THEN RelayError(500)
       ELSE RelayReply(IF outcome = "text" THEN "model" ELSE "stock")

\* A request arrives at the handler.
RelayRequest(method, body, key) ==
  /\ relay.phase \in {"idle", "done"}
  /\ method \in RelayMethods /\ body \in RelayBodies /\ key \in BOOLEAN
  /\ LET early == RelayEarly(relay.build, method, body, key)
         req == [ t |-> "req", method |-> method, body |-> body, key |-> key ]
     IN  relay' = IF early = NoAns
                    THEN [relay EXCEPT !.phase = "upstream", !.req = req,
                                       !.up = "none", !.sent = << >>]
                  ELSE [relay EXCEPT !.phase = "done", !.req = req,
                                     !.up = "none", !.sent = << early >>]
  /\ UNCHANGED << variant, acct, canvas, bp, mode, capture, ledger, pending, blueprint, projects, chat, last >>

\* The upstream call settles and the handler answers.
RelayUpstream(outcome) ==
  /\ relay.phase = "upstream"
  /\ outcome \in RelayUpstreamsFor(relay.req.key)
  /\ relay' = [relay EXCEPT !.phase = "done", !.up = outcome,
                            !.sent = Append(@, RelayLate(relay.build, outcome))]
  /\ UNCHANGED << variant, acct, canvas, bp, mode, capture, ledger, pending, blueprint, projects, chat, last >>

\* ------------------------------------------------- project export/import
\* JSON.parse(JSON.stringify(s)) of one ledger entry.
ExportSelection(s) ==
  [ type |-> JStr(s.type), label |-> JStr(s.label), geo |-> s.geo, real |-> s.real,
    areaSqFt |-> JNum(s.areaSqFt) ]

\* exportFullEstimatorState
ExportState ==
  [ t |-> "obj", version |-> 1, mode |-> JStr(mode),
    selections |-> JList([ i \in 1..Len(selections) |-> ExportSelection(selections[i]) ]),
    blueprint |-> blueprint,
    snapshot |-> Snapshot(selections) ]

\* The import mapping reading the area from a field the file does not have.
ImportSelectionNoArea(s) ==
  [ type |-> IF s.type.t = "str" THEN s.type.s ELSE "undefined",
    label |-> IF s.label.t = "str" THEN s.label.s ELSE "",
    geo |-> s.geo,
    real |-> s.real,
    areaSqFt |-> 0 ]

\* One entry of state.selections.map(...) in importFullEstimatorState:
\* label: s.label || '', areaSqFt: Number(s.areaSqFt) || 0, the rest as is.
ImportSelection(s) ==
  [ type |-> IF s.type.t = "str" THEN s.type.s ELSE "undefined",
    label |-> IF s.label.t = "str" THEN s.label.s ELSE "",
    geo |-> s.geo,
    real |-> s.real,
    areaSqFt |-> IF s.areaSqFt.t = "num" THEN s.areaSqFt.v ELSE 0 ]

\* The guard of importFullEstimatorState: state && Array.isArray(state.selections).
ValidState(state) == state.t = "obj" /\ state.selections.t = "list"

ImportSelections(state) ==
  [ i \in 1..Len(state.selections.items) |-> ImportSelection(state.selections.items[i]) ]

ImportMode(state, cur) ==
  IF state.mode.t = "str" /\ state.mode.s \in {"rect", "circle", "tri"}
    THEN state.mode.s ELSE cur

ImportThrows(state) == RenderThrows(ImportSelections(state))

\* importFullEstimatorState(state), for a state that passes its guard.  With
\* no blueprint in the state it renders before it recomputes the totals: a
\* render() that throws leaves the totals and the list as they were.
ImportFullEstimatorState(state) ==
  /\ IF ImportThrows(state) /\ state.blueprint = NoUrl
       THEN /\ selections' = ImportSelections(state)
            /\ UNCHANGED << totalOut, countOut, cards >>
     ELSE RecomputeTotals(ImportSelections(state))
  /\ mode' = ImportMode(state, mode)
  /\ isDragging' = FALSE
  /\ dragStart' = NoPoint /\ dragEnd' = NoPoint
  /\ circleCenter' = NoPoint /\ circleEdge' = NoPoint
  /\ triPoints' = << >>
  /\ blueprint' = state.blueprint
  /\ bp' = [bp EXCEPT !.img = state.blueprint,
                      !.picked = [name |-> state.blueprint,
                                  persist |-> state.blueprint # NoUrl]]
  /\ UNCHANGED << polyPoints, polySideFeet, pending >>

\* Project states found in the store that this page did not write: an entry
\* without a state, one whose selections is not a list, and one whose
\* selections were written by something else.
ForeignSelections ==
  << [ type |-> JStr("rect"), label |-> Undef,
       geo |-> [p1 |-> <<0, 0>>, p2 |-> <<75, 100>>],
       real |-> [widthFt |-> 6, heightFt |-> 6], areaSqFt |-> JNum(AreaDen) ],
     [ type |-> JStr("circle"), label |-> JStr("Hall"),
       geo |-> [c |-> <<0, 0>>, r |-> 125],
       real |-> [radiusFt |-> 0], areaSqFt |-> JText ] >>
\* A rectangle written without its geometry.
ForeignNoGeo ==
  << [ type |-> JStr("rect"), label |-> JStr("Den"), geo |-> Undef,
       real |-> [widthFt |-> 6, heightFt |-> 6], areaSqFt |-> JNum(RectArea(6, 6)) ] >>
ForeignStates ==
  { Undef,
    [ t |-> "obj", version |-> 1, mode |-> Undef, selections |-> JText,
      blueprint |-> NoUrl, snapshot |-> Undef ],
    [ t |-> "obj", version |-> 1, mode |-> JStr("poly"),
      selections |-> JList(ForeignSelections),
      blueprint |-> NoUrl, snapshot |-> Undef ],
    [ t |-> "obj", version |-> 1, mode |-> JStr("rect"),
      selections |-> JList(ForeignNoGeo),
      blueprint |-> NoUrl, snapshot |-> Undef ] }

ProjectNames == { "", "House" }

\* saveCurrentProject (part_003); `full` is the store refusing the write.
SaveProject(name, full) ==
  /\ variant = "sync" /\ ~Blocked
  /\ name \in ProjectNames /\ full \in BOOLEAN
  /\ Len(projects) < MaxProjects
  /\ IF name = ""
       THEN /\ last' = EvOut("save", JStr(name), "alert")
            /\ UNCHANGED projects
     ELSE IF full
       THEN /\ last' = EvOut("save", JStr(name), "alert")
            /\ UNCHANGED projects
     ELSE /\ last' = EvAns("save", JStr(name))
          /\ projects' = Append(projects, ExportState)
  /\ UNCHANGED << others, chat, blueprint, mode, capture, ledger, pending >>

\* btnDelete 'click' of a project card; `ok` is the confirm() answer.
DeleteProject(i, ok) ==
  /\ variant = "sync" /\ ~Blocked
  /\ i \in 1..Len(projects) /\ ok \in BOOLEAN
  /\ last' = Ev("delete")
  /\ projects' = IF ok THEN RemoveAt(projects, i) ELSE projects
  /\ UNCHANGED << others, chat, blueprint, mode, capture, ledger, pending >>

\* btnLoad 'click' of a project card (part_003): import, alert on a throw.
LoadProject(i) ==
  /\ variant = "sync" /\ ~Blocked
  /\ i \in 1..Len(projects)
  /\ IF ValidState(projects[i])
       THEN /\ ImportFullEstimatorState(projects[i])
            /\ last' = EvOut("load", projects[i],
                             IF ImportThrows(projects[i]) THEN "alert" ELSE "none")
     ELSE /\ last' = EvOut("load", projects[i], "alert")
          /\ UNCHANGED << blueprint, bp, mode, capture, ledger, pending >>
  /\ UNCHANGED << variant, relay, acct, canvas, chat, projects >>

\* loadBtn 'click' of a project card (auth.js): import, nothing catches.
AuthLoadProject(i) ==
  /\ variant = "sync" /\ ~Blocked
  /\ i \in 1..Len(projects)
  /\ IF ValidState(projects[i])
       THEN /\ ImportFullEstimatorState(projects[i])
            /\ last' = EvOut("authload", projects[i],
                             IF ImportThrows(projects[i]) THEN "throw" ELSE "none")
     ELSE /\ last' = EvOut("authload", projects[i], "throw")
          /\ UNCHANGED << blueprint, bp, mode, capture, ledger, pending >>
  /\ UNCHANGED << variant, relay, acct, canvas, chat, projects >>

\* ------------------------------------------- blueprint file, step by step
\* The files a user may pick: a small image, an image over the size a
\* project may carry, and a file that is no image.
MAX_BLUEPRINT_BYTES == 2 * 1024 * 1024
BpFiles ==
  { [name |-> "imgA", image |-> TRUE, size |-> 1024 * 1024],
    [name |-> "bigB", image |-> TRUE, size |-> 3 * 1024 * 1024],
    [name |-> "notes", image |-> FALSE, size |-> 1024] }
CanPersist(file) == file.size <= MAX_BLUEPRINT_BYTES

\* blueprintInput 'change' (part_003), up to its return: the data URL is
\* dropped at once; the read and the decode it starts finish later.
BpChange(file) ==
  /\ variant = "sync" /\ ~Blocked
  /\ file \in BpFiles
  /\ IF ~file.image
       THEN /\ last' = EvOut("bpchange", JStr(file.name), "alert")
            /\ UNCHANGED << blueprint, bp >>
     ELSE /\ blueprint' = NoUrl
          /\ bp' = [bp EXCEPT
                      !.reads = IF CanPersist(file) THEN @ \cup { file.name } ELSE @,
                      !.loads = @ \cup { file.name },
                      !.picked = [name |-> file.name, persist |-> CanPersist(file)]]
          /\ last' = EvAns("bpchange", JStr(file.name))
  /\ UNCHANGED << variant, relay, acct, canvas, chat, projects, mode, capture, ledger, pending >>

\* reader.onload of a read started by the change handler
BpReaderLoad(name) ==
  /\ variant = "sync" /\ ~Blocked
  /\ name \in bp.reads
  /\ blueprint' = name
  /\ bp' = [bp EXCEPT !.reads = @ \ { name }]
  /\ last' = EvAns("bpread", JStr(name))
  /\ UNCHANGED << variant, relay, acct, canvas, chat, projects, mode, capture, ledger, pending >>

\* img.onload of a decode started by the change handler: the image is put
\* on the canvas; the status line warns when the file is too large to save.
BpImgLoad(file) ==
  /\ variant = "sync" /\ ~Blocked
  /\ file \in BpFiles /\ file.name \in bp.loads
  /\ bp' = [bp EXCEPT
              !.img = file.name,
              !.loads = @ \ { file.name },
              !.warned = IF CanPersist(file) THEN @ ELSE @ \cup { file.name }]
  /\ last' = EvOut("bpload", JStr(file.name),
                   IF CanPersist(file) THEN "none" ELSE "warn")
  /\ UNCHANGED blueprint
  /\ UNCHANGED << variant, relay, acct, canvas, chat, projects, mode, capture, ledger, pending >>

\* img.onerror: an alert; the canvas keeps what it showed.
BpImgError(name) ==
  /\ variant = "sync" /\ ~Blocked
  /\ name \in bp.loads
  /\ bp' = [bp EXCEPT !.loads = @ \ { name }]
  /\ last' = EvOut("bperror", JStr(name), "alert")
  /\ UNCHANGED blueprint
  /\ UNCHANGED << variant, relay, acct, canvas, chat, projects, mode, capture, ledger, pending >>

\* ------------------------------------------------------ accounts, owners
\* The builds with accounts: "page" (part_003: currentUser, guest saves)
\* and "widget" (auth.js: session in localStorage, a modal asking the
\* project name).
AcctBuilds == { "page", "widget" }
Accounts == { "ann", "bob" }
Guest == "guest"
NoUser == "none"
Passwords == { "pw1", "pw2" }

\* A record of the user store: the salt drawn at registration (it also
\* stands for the record's id) and the password its hash was made of; two
\* hashes are equal when salt and password are.  NoRec: no such user.
UserRec(salt, pw) == [salt |-> salt, pw |-> pw]
NoRec == UserRec(0, "none")

\* loadProjects of part_003 reads the guest list when nobody is signed in.
OwnerOf(session) == IF session = NoUser THEN Guest ELSE session

\* renderProjects: the cards of `owner`'s projects.  auth.js shows no card
\* when signed out.
ShownFor(build, owner, stores) ==
  IF build = "widget" /\ owner = NoUser THEN [owner |-> NoUser, list |-> << >>]
  ELSE [owner |-> OwnerOf(owner), list |-> stores[OwnerOf(owner)]]

\* The page after its start-up code, with the session it restored.
StartAcct(build, session) ==
  LET stores == [o \in (Accounts \cup { Guest }) |-> << >>]
  IN  [ build |-> build, session |-> session, stores |-> stores,
        shown |-> ShownFor(build, session, stores),
        saveModal |-> NoUser, nextId |-> 1,
        users |-> [u \in Accounts |-> UserRec(1, "pw1")],
        tasks |-> {}, nextSalt |-> 2 ]

\* A project record as saveCurrentProject / doSaveWithName push it.
ProjectRecord(name, st) == [ id |-> acct.nextId, name |-> name, state |-> st ]

\* projects.filter(x => x.id !== id)
RECURSIVE WithoutId(_, _)
WithoutId(list, id) ==
  IF list = << >> THEN << >>
  ELSE IF list[1].id = id THEN WithoutId(Tail(list), id)
  ELSE << list[1] >> \o WithoutId(Tail(list), id)

AcctFrame == UNCHANGED << variant, relay, canvas, bp, mode, capture, ledger, pending, blueprint, projects, chat >>

\* signInAccount / btnLogin click, from the click to the end of the handler,
\* for an account whose password matched.
SignIn(u) ==
  /\ u \in Accounts
  /\ acct.session = NoUser
  /\ acct' = [acct EXCEPT !.session = u, !.shown = ShownFor(acct.build, u, acct.stores)]
  /\ last' = EvAns("signin", JStr(u))
  /\ AcctFrame

\* signOutAccount / btnLogout click
SignOut ==
  /\ acct.session # NoUser
  /\ acct' = [acct EXCEPT !.session = NoUser,
                          !.shown = ShownFor(acct.build, NoUser, acct.stores)]
  /\ last' = Ev("signout")
  /\ AcctFrame

\* saveCurrentProject (part_003): the project goes to the list of the user
\* signed in now, or to the guest list; a setItem that throws is caught.
SaveCurrentProject(name, full) ==
  /\ acct.build = "page"
  /\ name \in ProjectNames /\ full \in BOOLEAN
  /\ acct.nextId <= MaxSaves
  /\ IF name = "" \/ full
       THEN /\ last' = EvOut("acctsave", [t |-> "save", name |-> name, full |-> full], "alert")
            /\ UNCHANGED acct
     ELSE LET o == OwnerOf(acct.session)
              stores == [acct.stores EXCEPT ![o] = Append(@, ProjectRecord(name, ExportState))]
          IN  /\ last' = EvAns("acctsave", [t |-> "save", name |-> name, full |-> full])
              /\ acct' = [acct EXCEPT !.stores = stores, !.nextId = @ + 1,
                                      !.shown = ShownFor("page", acct.session, stores)]
  /\ AcctFrame

\* btnSaveProject click (auth.js): the modal opens for the user signed in.
OpenSaveModal ==
  /\ acct.build = "widget"
  /\ IF acct.session = NoUser
       THEN last' = EvOut("opensave", NoAns, "alert") /\ UNCHANGED acct
     ELSE /\ last' = Ev("opensave")
          /\ acct' = [acct EXCEPT !.saveModal = acct.session]
  /\ AcctFrame

\* saveCancel click (auth.js)
CloseSaveModal ==
  /\ acct.build = "widget"
  /\ acct.saveModal # NoUser
  /\ acct' = [acct EXCEPT !.saveModal = NoUser]
  /\ last' = Ev("cancelsave")
  /\ AcctFrame

\* doSaveWithName (auth.js): the project goes to the list of the user the
\* modal was opened for, and that list is rendered; a setItem that throws
\* is not caught.
DoSaveWithName(name, full) ==
  /\ acct.build = "widget"
  /\ name \in ProjectNames /\ full \in BOOLEAN
  /\ acct.saveModal # NoUser
  /\ acct.nextId <= MaxSaves
  /\ IF name = ""
       THEN /\ last' = EvOut("acctsave", [t |-> "save", name |-> name, full |-> full], "alert")
            /\ UNCHANGED acct
     ELSE IF full
       THEN /\ last' = EvOut("acctsave", [t |-> "save", name |-> name, full |-> full], "throw")
            /\ UNCHANGED acct
     ELSE LET o == acct.saveModal
              stores == [acct.stores EXCEPT ![o] = Append(@, ProjectRecord(name, ExportState))]
          IN  /\ last' = EvAns("acctsave", [t |-> "save", name |-> name, full |-> full])
              /\ acct' = [acct EXCEPT !.stores = stores, !.nextId = @ + 1,
                                      !.saveModal = NoUser,
                                      !.shown = ShownFor("widget", o, stores)]
  /\ AcctFrame

\* Delete on card i of the list shown; `ok` is the confirm() answer.  The
\* page filters the list of the user signed in now, the widget the list of
\* the user the cards were rendered for.
DeleteOwned(i, ok) ==
  /\ i \in 1..Len(acct.shown.list) /\ ok \in BOOLEAN
  /\ last' = EvAns("acctdelete", Num(i))
  /\ IF ~ok THEN UNCHANGED acct
     ELSE LET o == IF acct.build = "page" THEN OwnerOf(acct.session) ELSE acct.shown.owner
              stores == [acct.stores EXCEPT ![o] = WithoutId(@, acct.shown.list[i].id)]
          IN  acct' = [acct EXCEPT !.stores = stores,
                                  !.shown = ShownFor(acct.build, o, stores)]
  /\ AcctFrame

\* ------------------------------------------- registration and login
\* The handlers that can be waiting for their hash.
AuthTasks ==
  [ op : { "register", "login" }, u : Accounts, pw : Passwords, salt : 0..MaxSalt,
    snap : [Accounts -> { NoRec } \cup { UserRec(n, pw) : n \in 1..MaxSalt, pw \in Passwords }] ]

\* signUpAccount / btnRegister click, up to its await of the hash: the
\* user store is read and the name looked up; the handler keeps what it
\* read.
RegisterStart(u, pw) ==
  /\ u \in Accounts /\ pw \in Passwords
  /\ Cardinality(acct.tasks) < MaxTasks /\ acct.nextSalt <= MaxSalt
  /\ IF acct.users[u] # NoRec
       THEN /\ last' = EvOut("register", [t |-> "cred", u |-> u, pw |-> pw], "alert")
            /\ UNCHANGED acct
     ELSE /\ last' = EvAns("registering", [t |-> "cred", u |-> u, pw |-> pw])
          /\ acct' = [acct EXCEPT
                        !.tasks = @ \cup { [op |-> "register", u |-> u, pw |-> pw,
                                            salt |-> acct.nextSalt, snap |-> acct.users] },
                        !.nextSalt = @ + 1]
  /\ AcctFrame

\* ... after the await: the new record is put into the users the handler
\* read, these are written back, and the new user is signed in.
RegisterFinish(task) ==
  /\ task \in acct.tasks /\ task.op = "register"
  /\ acct' = [acct EXCEPT
                !.tasks = @ \ { task },
                !.users = [task.snap EXCEPT ![task.u] = UserRec(task.salt, task.pw)],
                !.session = task.u,
                !.shown = ShownFor(acct.build, task.u, acct.stores)]
  /\ last' = EvAns("register", [t |-> "cred", u |-> task.u, pw |-> task.pw])
  /\ AcctFrame

\* signInAccount / btnLogin click, up to its await of the hash
LoginStart(u, pw) ==
  /\ u \in Accounts /\ pw \in Passwords
  /\ Cardinality(acct.tasks) < MaxTasks
  /\ IF acct.users[u] = NoRec
       THEN /\ last' = EvOut("login", [t |-> "cred", u |-> u, pw |-> pw], "alert")
            /\ UNCHANGED acct
     ELSE /\ last' = EvAns("loggingin", [t |-> "cred", u |-> u, pw |-> pw])
          /\ acct' = [acct EXCEPT
                        !.tasks = @ \cup { [op |-> "login", u |-> u, pw |-> pw,
                                            salt |-> 0, snap |-> acct.users] }]
  /\ AcctFrame

\* ... after the await: the hash of the entry is compared with the hash in
\* the record the handler read.
LoginFinish(task) ==
  /\ task \in acct.tasks /\ task.op = "login"
  /\ IF task.pw # task.snap[task.u].pw
       THEN /\ last' = EvOut("login", [t |-> "cred", u |-> task.u, pw |-> task.pw], "alert")
            /\ acct' = [acct EXCEPT !.tasks = @ \ { task }]
     ELSE /\ last' = EvAns("login", [t |-> "cred", u |-> task.u, pw |-> task.pw])
          /\ acct' = [acct EXCEPT !.tasks = @ \ { task },
                                  !.session = task.u,
                                  !.shown = ShownFor(acct.build, task.u, acct.stores)]
  /\ AcctFrame

\* ------------------------------------------------- legacy build (part_002)
\* promptNumber of part_002: null on Cancel, NaN unless finite and > 0.
LegacyPromptNumber(raw) ==
  IF raw = CancelAns THEN NullRes
  ELSE IF raw.t = "num" /\ raw.v > 0 THEN Num(raw.v)
  ELSE NaNRes

\* rectFromPoints: the corner, width and height of the dragged box.
RectFromPoints(a, b) ==
  [ x |-> Min(a[1], b[1]), y |-> Min(a[2], b[2]),
    w |-> Abs(a[1] - b[1]), h |-> Abs(a[2] - b[2]) ]

LegacyRectTooSmall(a, b) ==
  RectFromPoints(a, b).w < LegacyMinRectPx \/ RectFromPoints(a, b).h < LegacyMinRectPx
LegacyCircleTooSmall(a, b) == Dist2(a, b) < LegacyMinRadiusPx * LegacyMinRadiusPx

\* The objects the legacy build pushes: `details` holds the numbers its
\* text is made of, `draw` the pixel geometry (radiusPx in whole px).
LegacySel(type, label, details, area, draw) ==
  [ type |-> type, label |-> label, details |-> details, areaSqFt |-> area,
    draw |-> draw ]

\* getEstimatorSnapshot of the legacy build
LegacySnapshot(sel) ==
  [ totalSqFt |-> Fmt2(SumAreas(sel)),
    selectionsCount |-> Len(sel),
    selections |-> [ i \in 1..Len(sel) |->
        [ type |-> sel[i].type, label |-> sel[i].label,
          areaFt2 |-> Fmt2(sel[i].areaSqFt), details |-> sel[i].details ] ] ]

\* resetInProgressSelection
ResetInProgressSelection ==
  /\ isDragging' = FALSE
  /\ dragStart' = NoPoint /\ dragEnd' = NoPoint
  /\ triPoints' = << >>

LegacyKeep == UNCHANGED << circleCenter, circleEdge, polyPoints, polySideFeet >>

\* fileInput 'change' with a file, through to img.onload.
LegacyFileChange(file) ==
  /\ variant = "legacy" /\ ~Blocked
  /\ file \in Images
  /\ blueprint' = file
  /\ RecomputeTotals(<< >>)
  /\ ResetInProgressSelection
  /\ last' = EvAns("blueprint", [t |-> "str", s |-> file])
  /\ LegacyKeep
  /\ bp' = [bp EXCEPT !.img = file, !.picked = [name |-> file, persist |-> TRUE]]
  /\ UNCHANGED << variant, relay, acct, canvas, chat, projects, mode, pending >>

\* shapeModeEl 'change'
LegacyModeChange(m) ==
  /\ variant = "legacy" /\ ~Blocked
  /\ m \in {"rect", "circle", "tri"} /\ m # mode
  /\ mode' = m
  /\ ResetInProgressSelection
  /\ last' = Ev("modechange")
  /\ LegacyKeep
  /\ UNCHANGED << env, ledger, pending >>

\* canvas 'mousedown'
LegacyMouseDown(p) ==
  /\ variant = "legacy" /\ ~Blocked
  /\ p \in Points
  /\ blueprint # NoUrl /\ mode # "tri"
  /\ CanDraw
  /\ isDragging' = TRUE /\ dragStart' = p /\ dragEnd' = p
  /\ last' = Ev("mousedown")
  /\ LegacyKeep
  /\ UNCHANGED << env, mode, triPoints, ledger, pending >>

\* canvas 'mousemove'
LegacyMouseMove(p) ==
  /\ variant = "legacy" /\ ~Blocked
  /\ p \in Points
  /\ isDragging
  /\ dragEnd' = p
  /\ last' = Ev("mousemove")
  /\ LegacyKeep
  /\ UNCHANGED << env, mode, isDragging, dragStart, triPoints, ledger, pending >>

\* canvas 'mouseup', up to its first prompt.
LegacyMouseUp ==
  /\ variant = "legacy" /\ ~Blocked
  /\ isDragging
  /\ last' = Ev("mouseup")
  /\ LegacyKeep
  /\ UNCHANGED << env, mode, ledger >>
  /\ IF dragStart = NoPoint \/ dragEnd = NoPoint
       THEN isDragging' = FALSE /\ UNCHANGED << dragStart, dragEnd, triPoints, pending >>
     ELSE IF mode = "rect"
       THEN IF LegacyRectTooSmall(dragStart, dragEnd)
              THEN ResetInProgressSelection /\ UNCHANGED pending
            ELSE /\ isDragging' = FALSE
                 /\ pending' = Ask("rectW", "", << >>, << >>)
                 /\ UNCHANGED << dragStart, dragEnd, triPoints >>
     ELSE IF mode = "circle"
       THEN IF LegacyCircleTooSmall(dragStart, dragEnd)
              THEN ResetInProgressSelection /\ UNCHANGED pending
            ELSE /\ isDragging' = FALSE
                 /\ pending' = Ask("circR", "", << >>, << >>)
                 /\ UNCHANGED << dragStart, dragEnd, triPoints >>
     ELSE isDragging' = FALSE /\ UNCHANGED << dragStart, dragEnd, triPoints, pending >>

\* canvas 'click', up to its first prompt.
LegacyClick(p) ==
  /\ variant = "legacy" /\ ~Blocked
  /\ p \in Points
  /\ blueprint # NoUrl /\ mode = "tri"
  /\ CanDraw
  /\ triPoints' = Append(triPoints, p)
  /\ pending' = IF Len(triPoints) + 1 < 3 THEN pending ELSE Ask("triB", "", << >>, << >>)
  /\ last' = Ev("click")
  /\ LegacyKeep
  /\ UNCHANGED << env, mode, isDragging, dragStart, dragEnd, ledger >>

\* The open prompt of the legacy build returns `raw`; the handler goes on,
\* asking for the label (`lab`) when the last measurement was accepted.
LegacyAnswer(raw, lab) ==
  /\ variant = "legacy" /\ Blocked
  /\ raw \in PromptAnswers /\ lab \in LabelInputs
  /\ last' = EvAns("answer", raw)
  /\ LegacyKeep
  /\ UNCHANGED << env, mode >>
  /\ LET res == LegacyPromptNumber(raw)
         k == pending.k
         vs == pending.vals
         label == PromptLabel(lab, DefaultLabel(Len(selections) + 1))
     IN  IF res = NullRes \/ res = NaNRes
           THEN /\ pending' = NoPending
                /\ UNCHANGED ledger
                /\ IF k \in {"triB", "triH"}
                     THEN triPoints' = << >> /\ UNCHANGED << isDragging, dragStart, dragEnd >>
                   ELSE ResetInProgressSelection
         ELSE IF k \in {"rectW", "triB"}
           THEN /\ pending' = Ask(IF k = "rectW" THEN "rectH" ELSE "triH", "", << res.v >>, << >>)
                /\ UNCHANGED << ledger, isDragging, dragStart, dragEnd, triPoints >>
         ELSE IF k = "rectH"
           THEN /\ pending' = NoPending
                /\ Push(LegacySel("rect", label, [widthFt |-> vs[1], heightFt |-> res.v],
                                  RectArea(vs[1], res.v),
                                  [rect |-> RectFromPoints(dragStart, dragEnd)]))
                /\ ResetInProgressSelection
         ELSE IF k = "circR"
           THEN /\ pending' = NoPending
                /\ Push(LegacySel("circle", label, [radiusFt |-> res.v], CircleArea(res.v),
                                  [center |-> dragStart,
                                   radiusPx |-> ISqrt(Dist2(dragStart, dragEnd))]))
                /\ ResetInProgressSelection
         ELSE /\ pending' = NoPending
              /\ Push(LegacySel("tri", label, [baseFt |-> vs[1], heightFt |-> res.v],
                                TriArea(vs[1], res.v), [points |-> triPoints]))
              /\ triPoints' = << >>
              /\ UNCHANGED << isDragging, dragStart, dragEnd >>

\* btnUndo 'click'
LegacyUndo ==
  /\ variant = "legacy" /\ ~Blocked
  /\ selections # << >>
  /\ RecomputeTotals(Front(selections))
  /\ last' = EvAns("undo", Num(Len(selections)))
  /\ UNCHANGED << env, mode, capture, pending >>

\* btnClear 'click'
LegacyClear ==
  /\ variant = "legacy" /\ ~Blocked
  /\ selections # << >>
  /\ RecomputeTotals(<< >>)
  /\ last' = EvAns("clear", Num(Len(selections)))
  /\ UNCHANGED << env, mode, capture, pending >>

\* ---------------------------------------------------------- specification
IdleChat(build, host) ==
  [build |-> build, host |-> host, inflight |-> 0, disabled |-> FALSE,
   sent |-> 0, replies |-> 0]

InitSync == variant = "sync" /\ projects = << >> /\ chat = IdleChat("form", "server") /\ relay = IdleRelay("responses") /\ acct = StartAcct("page", NoUser) /\ InitCommon
InitModal == variant = "modal" /\ projects = << >> /\ chat = IdleChat("form", "server") /\ relay = IdleRelay("responses") /\ acct = StartAcct("page", NoUser) /\ InitCommon
InitLegacy == variant = "legacy" /\ projects = << >> /\ chat = IdleChat("form", "server") /\ relay = IdleRelay("responses") /\ acct = StartAcct("page", NoUser) /\ InitCommon
\* The page with its chat widget, served with or without the /api/chat relay.
InitChat ==
  /\ variant = "sync" /\ projects = << >>
  /\ chat \in { IdleChat(b, "server") : b \in ChatBuilds } \cup { IdleChat("form", "pages") }
  /\ relay = IdleRelay("responses") /\ acct = StartAcct("page", NoUser)
  /\ InitCommon
\* The page or the widget after start-up, with the session it found.
InitAccounts ==
  /\ variant = "sync" /\ projects = << >>
  /\ chat = IdleChat("form", "server")
  /\ relay = IdleRelay("responses")
  /\ acct \in { StartAcct(b, u) : b \in AcctBuilds, u \in Accounts \cup { NoUser } }
  /\ InitCommon
\* A page with accounts where ann may be registered and bob is not.
InitAuth ==
  /\ variant = "sync" /\ projects = << >>
  /\ chat = IdleChat("form", "server")
  /\ relay = IdleRelay("responses")
  /\ acct \in { [StartAcct(b, NoUser) EXCEPT !.users = r] :
                   b \in AcctBuilds,
                   r \in { [u \in Accounts |-> NoRec],
                           [u \in Accounts |-> IF u = "ann" THEN UserRec(1, "pw1") ELSE NoRec] } }
  /\ InitCommon
\* The serverless function, in one of its builds, before any request.
InitRelay ==
  /\ variant = "sync" /\ projects = << >>
  /\ chat = IdleChat("form", "server")
  /\ relay \in { IdleRelay(b) : b \in RelayBuilds }
  /\ acct = StartAcct("page", NoUser)
  /\ InitCommon
\* The store may hold a project this page did not write.
InitProject ==
  /\ variant = "sync"
  /\ projects \in { << >> } \cup { << st >> : st \in ForeignStates }
  /\ chat = IdleChat("form", "server")
  /\ relay = IdleRelay("responses") /\ acct = StartAcct("page", NoUser)
  /\ InitCommon

\* The inputs each specification draws from.  Triangle corners are clicked
\* at one place; one accepted length is enough where its value is not what
\* is examined.
ModalPoints == { <<0, 0>>, <<12, 16>> }
TriClickPoints == { <<0, 0>> }
ProjectAnswers == { CancelAns, Num(13) }
SyncAnswers == PromptAnswers \ { Num(6) }
ModalOneLength == ModalInputs \ { FtIn(Num(0), Num(6)) }

NextSync ==
  \/ \E m \in {"rect", "circle", "tri"} : ModeChange(m)
  \/ Undo
  \/ Clear
  \/ \E i \in 1..MaxSel : Remove(i)
  \/ \E p \in Points : MouseDown(p)
  \/ \E p \in Points : MouseMove(p)
  \/ \E lab \in LabelInputs : MouseUp(lab)
  \/ \E p \in TriClickPoints, lab \in LabelInputs : Click(p, lab)
  \/ \E raw \in SyncAnswers, lab \in LabelInputs : AnswerPrompt(raw, lab)
  \/ \E file \in Images : BlueprintChange(file)

NextProject ==
  \/ \E m \in {"rect", "circle"} : ModeChange(m)
  \/ Undo
  \/ Clear
  \/ \E i \in 1..MaxSel : Remove(i)
  \/ \E p \in ModalPoints : MouseDown(p)
  \/ \E p \in ModalPoints : MouseMove(p)
  \/ MouseUp("")
  \/ \E raw \in ProjectAnswers : AnswerPrompt(raw, "")
  \/ \E file \in Images : BlueprintChange(file)
  \/ \E name \in ProjectNames, full \in BOOLEAN : SaveProject(name, full)
  \/ \E i \in 1..MaxProjects, ok \in BOOLEAN : DeleteProject(i, ok)
  \/ \E i \in 1..MaxProjects : LoadProject(i)
  \/ \E i \in 1..MaxProjects : AuthLoadProject(i)

NextModal ==
  \/ \E m \in {"rect", "circle", "tri"} : ModeChange(m)
  \/ Undo
  \/ Clear
  \/ \E i \in 1..MaxSel : Remove(i)
  \/ \E p \in ModalPoints : MouseDown(p)
  \/ \E p \in ModalPoints : MouseMove(p)
  \/ MouseUp("")
  \/ \E p \in TriClickPoints : Click(p, "")
  \/ \E inp \in ModalOneLength : ModalOk(inp, "")
  \/ ModalCancel("")

\* The modal build in a window that is resized while a modal is open.
NextResize ==
  \/ \E m \in {"rect", "circle", "tri"} : ModeChange(m)
  \/ Undo
  \/ \E p \in ModalPoints : MouseDown(p)
  \/ \E p \in ModalPoints : MouseMove(p)
  \/ MouseUp("")
  \/ \E p \in TriClickPoints : Click(p, "")
  \/ \E inp \in ModalOneLength : ModalOk(inp, "")
  \/ ModalCancel("")
  \/ \E size \in { << CanvasW, CanvasH >>, << 2 * CanvasW, CanvasH >> } :
       ModalBusy /\ Resize(size)

\* The sync and the modal build in a window that is resized at any time.
NextResizeAny ==
  \/ \E m \in {"rect", "circle", "tri"} : ModeChange(m)
  \/ \E p \in ModalPoints : MouseDown(p)
  \/ \E p \in ModalPoints : MouseMove(p)
  \/ MouseUp("")
  \/ \E p \in TriClickPoints : Click(p, "")
  \/ \E raw \in SyncAnswers : AnswerPrompt(raw, "")
  \/ \E inp \in ModalOneLength : ModalOk(inp, "")
  \/ ModalCancel("")
  \/ \E size \in { << CanvasW, CanvasH >>, << 2 * CanvasW, CanvasH >> } : Resize(size)

NextPoly ==
  \/ \E m \in {"tri", "poly"} : ModeChange(m)
  \/ Undo
  \/ Clear
  \/ \E i \in 1..MaxSel : Remove(i)
  \/ \E p \in ModalPoints : (mode = "poly" \/ p \in TriClickPoints) /\ Click(p, "")
  \/ DblClick
  \/ \E key \in {"Enter", "Escape"} : KeyDown(key)
  \/ \E raw \in ChoiceAnswers \cup AreaAnswers : AnswerPrompt(raw, "")
  \/ \E inp \in ModalInputs : ModalOk(inp, "")
  \/ ModalCancel("")

NextChat ==
  \/ \E m \in {"rect", "circle"} : ModeChange(m)
  \/ Undo
  \/ \E p \in ModalPoints : MouseDown(p)
  \/ \E p \in ModalPoints : MouseMove(p)
  \/ MouseUp("")
  \/ \E raw \in ProjectAnswers : AnswerPrompt(raw, "")
  \/ \E text \in ChatTexts : ChatSubmit(text)
  \/ \E outcome \in ChatOutcomes : ChatSettle(outcome)
  \/ \E i \in 1..MaxSel : SnapshotRealWrite(i, 0)
  \/ \E i \in 1..MaxSel : SnapshotEntryWrite(i)

NextAccounts ==
  \/ \E u \in Accounts : SignIn(u)
  \/ SignOut
  \/ \E name \in ProjectNames, full \in BOOLEAN : SaveCurrentProject(name, full)
  \/ OpenSaveModal
  \/ CloseSaveModal
  \/ \E name \in ProjectNames, full \in BOOLEAN : DoSaveWithName(name, full)
  \/ \E i \in 1..MaxSaves, ok \in BOOLEAN : DeleteOwned(i, ok)
  \/ \E m \in {"rect", "circle"} : ModeChange(m)

\* Picking blueprint files and saving projects, every callback on its own.
NextBlueprint ==
  \/ \E file \in BpFiles : BpChange(file)
  \/ \E file \in BpFiles : BpReaderLoad(file.name)
  \/ \E file \in BpFiles : BpImgLoad(file)
  \/ \E file \in BpFiles : BpImgError(file.name)
  \/ \E name \in ProjectNames, full \in BOOLEAN : SaveProject(name, full)
  \/ \E i \in 1..MaxProjects, ok \in BOOLEAN : DeleteProject(i, ok)
  \/ \E i \in 1..MaxProjects : LoadProject(i)

NextAuth ==
  \/ \E u \in Accounts, pw \in Passwords : RegisterStart(u, pw)
  \/ \E task \in AuthTasks : RegisterFinish(task)
  \/ \E u \in Accounts, pw \in Passwords : LoginStart(u, pw)
  \/ \E task \in AuthTasks : LoginFinish(task)
  \/ SignOut

NextRelay ==
  \/ \E method \in RelayMethods, body \in RelayBodies, key \in BOOLEAN :
        RelayRequest(method, body, key)
  \/ \E outcome \in RelayUpstreams : RelayUpstream(outcome)

NextLegacy ==
  \/ \E file \in Images : LegacyFileChange(file)
  \/ \E m \in {"rect", "circle", "tri"} : LegacyModeChange(m)
  \/ \E p \in Points : LegacyMouseDown(p)
  \/ \E p \in Points : LegacyMouseMove(p)
  \/ LegacyMouseUp
  \/ \E p \in Points : LegacyClick(p)
  \/ \E raw \in PromptAnswers, lab \in LabelInputs : LegacyAnswer(raw, lab)
  \/ LegacyUndo
  \/ LegacyClear

SpecSync == InitSync /\ [][NextSync]_vars
SpecProject == InitProject /\ [][NextProject]_vars
SpecModal == InitModal /\ [][NextModal]_vars
SpecPoly == InitModal /\ [][NextPoly]_vars
SpecLegacy == InitLegacy /\ [][NextLegacy]_vars
SpecChat == InitChat /\ [][NextChat]_vars
SpecRelay == InitRelay /\ [][NextRelay]_vars
SpecAccounts == InitAccounts /\ [][NextAccounts]_vars
SpecAuth == InitAuth /\ [][NextAuth]_vars
SpecBlueprint == InitSync /\ [][NextBlueprint]_vars
SpecResize == InitModal /\ [][NextResize]_vars
SpecResizeAny == (InitSync \/ InitModal) /\ [][NextResizeAny]_vars
\* The relay call eventually resolves or rejects, and its continuation runs
\* once the page is not held by a window.prompt; a prompt that is open is
\* eventually answered.
SpecChatFair ==
  /\ SpecChat
  /\ SF_vars(\E outcome \in ChatOutcomes : ChatSettle(outcome))
  /\ WF_vars(\E raw \in ProjectAnswers : AnswerPrompt(raw, ""))

\* ================================================================= claims
\* Sq ft as the ledger stores them against hundredths as they are shown:
\* t hundredths equal a stored area a exactly when t * AreaDen = 100 * a.

\* C1, read at the precision of the display: after any sequence of appends,
\* undo, Remove, Clear and import, the displayed total and the snapshot's
\* totalSqFt are the sum of areaSqFt over the current selections (rounded
\* to the nearest hundredth, at most half a hundredth away from the sum),
\* and the displayed count and the snapshot's selectionsCount are the
\* number of selections.
C1_TotalsAreRoundedSum ==
  /\ 2 * Abs(totalOut * AreaDen - 100 * SumAreas(selections)) <= AreaDen
  /\ Snapshot(selections).totalSqFt = totalOut
  /\ countOut = Len(selections)
  /\ Snapshot(selections).selectionsCount = Len(selections)

\* C2: in every reachable state each selection's stored areaSqFt is the area
\* formula applied to its own stored measurement: width*height for a rect,
\* base*height/2 for a tri, pi*radius^2 for a circle.
C2_AreaMatchesMeasurement ==
  \A i \in 1..Len(selections) :
    LET s == selections[i]
    IN  /\ s.type = "rect" =>
             s.areaSqFt * SqInPerSqFt = s.real.widthFt * s.real.heightFt * AreaDen
        /\ s.type = "tri" =>
             2 * s.areaSqFt * SqInPerSqFt = s.real.baseFt * s.real.heightFt * AreaDen
        /\ s.type = "circle" =>
             s.areaSqFt * SqInPerSqFt * PiDen
               = PiNum * s.real.radiusFt * s.real.radiusFt * AreaDen

\* C3: when a measurement prompt of a shape being saved is cancelled, or
\* answered with a non-numeric or non-positive value, nothing is appended to
\* the ledger and no existing selection changes.
C3_BadAnswer(a) ==
  IF a.t \in {"cancel", "text"} THEN TRUE
  ELSE IF a.t = "num" THEN a.v <= 0
  ELSE IF a.t = "ftin"
    THEN IF a.feet.t # "num" \/ a.inches.t # "num" THEN TRUE
         ELSE \/ a.feet.v < 0 \/ a.inches.v < 0 \/ a.inches.v > 11
              \/ a.feet.v * 12 + a.inches.v <= 0
  ELSE FALSE

C3_MeasurementPrompts ==
  { "rectW", "rectH", "circR", "triB", "triH", "polySide", "polyClose",
    "trapTop", "trapBottom", "trapH", "polyManual" }

C3_BadAnswerLeavesLedger ==
  [][ ( /\ pending.k \in C3_MeasurementPrompts
        /\ last'.op = "answer"
        /\ C3_BadAnswer(last'.ans) )
      => ( selections' = selections /\ totalOut' = totalOut /\ countOut' = countOut )
    ]_vars

\* C3 witness: the closing-side prompt of a three-pin polygon was cancelled;
\* the draft is kept and the ledger is still empty.
C3_Witness ==
  /\ last.op = "answer" /\ last.ans = CancelAns
  /\ mode = "poly" /\ Len(polyPoints) = 3 /\ Len(polySideFeet) = 2
  /\ pending = NoPending /\ selections = << >>

\* C4: in every reachable state every length stored in a selection's
\* measurement is strictly greater than zero.
C4_StoredLengthsPositive ==
  \A i \in 1..Len(selections) :
    LET s == selections[i]
    IN  /\ s.type = "rect" => s.real.widthFt > 0 /\ s.real.heightFt > 0
        /\ s.type = "tri" => s.real.baseFt > 0 /\ s.real.heightFt > 0
        /\ s.type = "circle" => s.real.radiusFt > 0
        /\ s.type = "poly" =>
             /\ \A j \in 1..Len(s.real.sideFeet) : s.real.sideFeet[j] > 0
             /\ s.real.method = "trapezoid (bases + height)" =>
                  /\ s.real.details.topBase > 0
                  /\ s.real.details.bottomBase > 0
                  /\ s.real.details.height > 0

\* C5: while the Feet/Inches modal is open, a mousedown, mouseup, click,
\* double-click, key press or mode change changes neither the in-progress
\* capture state nor the ledger.
C5_NoCaptureInputWhilePrompting ==
  [][ ( /\ ModalBusy
        /\ last'.op \in { "mousedown", "mouseup", "click", "dblclick", "keydown",
                          "modechange" } )
      => ( capture' = capture /\ ledger' = ledger )
    ]_vars

\* C6: in every reachable state at most the active mode has non-empty
\* in-progress capture state.
C6_OnlyActiveModeHasDraft ==
  /\ mode # "rect" => dragStart = NoPoint /\ dragEnd = NoPoint
  /\ mode # "circle" => circleCenter = NoPoint /\ circleEdge = NoPoint
  /\ mode # "tri" => triPoints = << >>
  /\ mode # "poly" => polyPoints = << >> /\ polySideFeet = << >>
  /\ isDragging => mode \in {"rect", "circle"}

\* C7: a rectangle or circle drag shorter than 6 px from pointer-down to
\* pointer-up appends nothing and opens no prompt; the capture state is idle
\* again.
C7_SmallDrag ==
  \/ mode = "rect" /\ dragStart # NoPoint /\ dragEnd # NoPoint
       /\ Dist2(dragStart, dragEnd) < 36
  \/ mode = "circle" /\ circleCenter # NoPoint /\ circleEdge # NoPoint
       /\ Dist2(circleCenter, circleEdge) < 36

C7_SmallDragDiscarded ==
  [][ ( isDragging /\ C7_SmallDrag /\ last'.op = "mouseup" )
      => ( /\ ledger' = ledger
           /\ pending' = NoPending
           /\ ~isDragging'
           /\ dragStart' = NoPoint /\ dragEnd' = NoPoint
           /\ circleCenter' = NoPoint /\ circleEdge' = NoPoint )
    ]_vars

\* C7 witness: a drag ended without a prompt (so it was a short one) on a
\* ledger that holds a selection.
C7_Witness ==
  /\ last.op = "mouseup" /\ pending = NoPending
  /\ mode = "circle" /\ Len(selections) = 1

\* C8: an import whose payload is missing, or whose selections is not a
\* list, leaves the ledger, the mode, the capture state and the blueprint as
\* they were, and the user is notified.
C8_BadImportRejectedAndNotified ==
  [][ ( last'.op \in {"load", "authload"} /\ ~ValidState(last'.ans) )
      => ( /\ ledger' = ledger /\ mode' = mode /\ capture' = capture
           /\ blueprint' = blueprint
           /\ last'.out = "alert" )
    ]_vars

\* C9: importing what was just exported yields the same snapshot (total,
\* count, per-item label, type and area, in order) and the same mode.
C9_RoundTrip ==
  [][ ( last'.op \in {"load", "authload"} /\ last'.ans = ExportState )
      => ( Snapshot(selections') = Snapshot(selections) /\ mode' = mode )
    ]_vars

\* C9 witness: a project of two selections was loaded that is the export of
\* the state it was loaded into.
C9_Witness ==
  /\ last.op = "load" /\ last.ans = ExportState
  /\ Len(selections) = 2 /\ mode = "circle"

\* C10: only undo, Remove, Clear and loading a project take a selection out
\* of the ledger; every other event leaves every existing selection in
\* place, unmodified and in order.
C10_OnlyRemovalsShrinkLedger ==
  [][ last'.op \notin {"undo", "remove", "clear", "load", "authload"}
      => ( /\ Len(selections') >= Len(selections)
           /\ SubSeq(selections', 1, Len(selections)) = selections )
    ]_vars

\* C11: undo removes exactly the last selection of the ledger and leaves
\* all others as they were, in order; on an empty ledger it changes nothing.
C11_UndoRemovesLast ==
  [][ last'.op = "undo"
      => IF selections = << >> THEN ledger' = ledger
         ELSE /\ Len(selections') = Len(selections) - 1
              /\ \A j \in 1..Len(selections') : selections'[j] = selections[j]
    ]_vars

\* C11 witness: an undo found two selections and left the first one.
C11_Witness ==
  /\ last.op = "undo" /\ last.ans = Num(2)
  /\ Len(selections) = 1 /\ selections[1].label = "Area 1"

\* C12: from any ledger, Clear leaves an empty ledger whose displayed total
\* and count, and whose snapshot total and count, are 0.
C12_ClearYieldsZero ==
  [][ last'.op = "clear"
      => /\ selections' = << >>
         /\ totalOut' = 0 /\ countOut' = 0
         /\ Snapshot(selections').totalSqFt = 0
         /\ Snapshot(selections').selectionsCount = 0
    ]_vars

\* C12 witness: a Clear found two selections; the total shows 0.
C12_Witness ==
  /\ last.op = "clear" /\ last.ans = Num(2)
  /\ selections = << >> /\ totalOut = 0 /\ countOut = 0

\* C13: a Remove takes out exactly the selection shown on the card that was
\* clicked and keeps all the others in their order; when that selection is no
\* longer in the ledger, the ledger is left as it was.
C13_RemoveTakesTheCardsSelection ==
  [][ last'.op = "remove"
      => LET t == cards[last'.ans.v]
             at == { j \in 1..Len(selections) : selections[j] = t }
         IN  IF at = { } THEN selections' = selections
             ELSE \E j \in at : selections' = RemoveAt(selections, j)
    ]_vars

\* C14: every selection in the ledger has an id, and the ids of the
\* selections in the ledger are pairwise distinct.
C14_SelectionsHaveDistinctIds ==
  /\ \A i \in 1..Len(selections) : "id" \in DOMAIN selections[i]
  /\ \A i, j \in 1..Len(selections) : i # j => selections[i].id # selections[j].id

\* C15: when the user supplies no label, the selection appended by a save
\* is labelled "Area N" with N the number of selections in the ledger at the
\* moment of the append plus one, also when the ledger changed between the
\* label prompt and the append.
C15_DefaultLabelCountsAtAppend ==
  [][ ( /\ last'.op = "answer"
        /\ Len(selections') = Len(selections) + 1
        /\ selections'[Len(selections')].label \notin LabelInputs \ { "" } )
      => selections'[Len(selections')].label = "Area " \o ToString(Len(selections) + 1)
    ]_vars

\* C16: the snapshot handed to the chat holds no geometry: every entry has
\* exactly a label, a type, an area and the real measurement, and the
\* measurement holds lengths, a method name and area details only; this for
\* every ledger and every shape type.
C16_MeasurementFields ==
  { "widthFt", "heightFt", "radiusFt", "baseFt", "sideFeet", "method", "details" }

C16_SnapshotHasNoGeometry ==
  IF variant = "legacy"
    THEN \A i \in 1..Len(selections) :
           DOMAIN LegacySnapshot(selections).selections[i]
             = { "type", "label", "areaFt2", "details" }
  ELSE \A i \in 1..Len(selections) :
         LET e == Snapshot(selections).selections[i]
         IN  /\ DOMAIN e = { "label", "type", "areaSqFt", "real" }
             /\ DOMAIN e.real \subseteq C16_MeasurementFields

\* C16 witness: the ledger holds a rectangle and a triangle, each with its
\* geometry, and the snapshot has an entry for both.
C16_Witness ==
  /\ Len(selections) = 2
  /\ selections[1].type = "rect" /\ selections[1].geo.p2 # selections[1].geo.p1
  /\ selections[2].type = "tri" /\ "a" \in DOMAIN selections[2].geo
  /\ Snapshot(selections).selectionsCount = 2

\* C17: the chat only gets a read-only copy of the ledger: a write to a
\* snapshot that was handed out (to the snapshot, to one of its entries or to
\* the real measurements of an entry) changes nothing in the ledger, and a
\* chat message sent, a reply received and an error received leave the
\* ledger, the mode and the capture in progress as they are.
C17_ChatOps ==
  { "snapwrite", "snapedit", "chatsubmit", "chatreply", "chaterror" }

C17_SnapshotIsReadOnlyCopy ==
  [][ last'.op \in C17_ChatOps
        => ledger' = ledger /\ mode' = mode /\ capture' = capture ]_vars

\* C18: every way of completing a polygon (a click near the first pin, the
\* Enter key, a double click) opens the prompt for the closing edge and
\* commits nothing by itself; a polygon is appended only in answer to the
\* closing-edge prompt or to one of the area questions that follow an
\* accepted closing edge, and the polygon that is appended has at least
\* three points, as many side lengths as points, and positive lengths.
C18_AfterClosing == { "polyChoice", "polyManual", "trapTop", "trapBottom", "trapH" }

C18_PolyAppended ==
  /\ Len(selections') = Len(selections) + 1
  /\ selections'[Len(selections')].type = "poly"

C18_ClosingEdgeBeforeCommit ==
  [][ /\ ( /\ \/ last'.op \in {"click", "dblclick"}
               \/ (last'.op = "keydown" /\ last'.ans.key = "Enter")
            /\ mode = "poly" /\ Len(polyPoints) >= 3 /\ pending.k = "none"
            /\ polyPoints' = polyPoints )
          => pending'.k = "polyClose" /\ pending'.modal /\ ledger' = ledger
      /\ ( pending'.k \in C18_AfterClosing /\ pending.k \notin C18_AfterClosing )
          => pending.k = "polyClose" /\ last'.op = "answer" /\ last'.ans.t = "ftin"
      /\ C18_PolyAppended
          => /\ last'.op = "answer"
             /\ pending.k \in {"polyClose", "polyChoice", "polyManual", "trapH"}
             /\ LET s == selections'[Len(selections')]
                IN  /\ Len(s.geo.points) >= 3
                    /\ Len(s.real.sideFeet) = Len(s.geo.points)
                    /\ \A j \in 1..Len(s.real.sideFeet) : s.real.sideFeet[j] > 0 ]_vars

\* C18 witness: a four-sided polygon was committed after its closing edge
\* and the question about its shape were answered.
C18_Witness ==
  /\ last.op = "answer" /\ pending.k = "none"
  /\ Len(selections) = 1 /\ selections[1].type = "poly"
  /\ Len(selections[1].geo.points) = 4 /\ Len(selections[1].real.sideFeet) = 4

\* C19: in polygon mode, cancelling the length prompt that was opened for
\* a pin just added removes exactly that pin: the pins and the side lengths
\* are again what they were before the click, so the draft is kept.
C19_CancelSideRemovesThatPin ==
  [][ ( mode = "poly" /\ pending.k = "polySide"
        /\ last'.op = "answer" /\ last'.ans = CancelAns )
        => /\ polyPoints' = pending.pts
           /\ polySideFeet' = pending.vals
           /\ polyPoints' # << >> ]_vars

\* C20 as stated: while a polygon is in progress, Escape and the cancelling
\* of a length prompt both discard the draft entirely (no pins, no side
\* lengths) and leave the ledger unchanged.
C20_LengthPrompts == { "polySide", "polyClose" }

C21_Radicand16(a, b, c) == (a + b + c) * (b + c - a) * (a + c - b) * (a + b - c)

C21_IsRootArea(area, r16) ==
  LET k == AreaDen \div SqInPerSqFt
      lo == (4 * area) \div k
      hi == (4 * (area + 2)) \div k + 1
  IN  lo * lo <= r16 /\ r16 < hi * hi

C22_NamesMethod(raw) == raw.t = "str" /\ raw.first \in { "r", "t", "i" }

C22_InvalidChoiceAborts ==
  [][ ( /\ pending.k = "polyChoice" /\ Len(pending.vals) = 4
        /\ last'.op = "answer" /\ ~C22_NamesMethod(last'.ans) )
        => ledger' = ledger /\ pending' = NoPending ]_vars

\* C22 witness: the question about a four-sided polygon was answered with
\* a letter that names no method; the draft is used up and nothing is saved.
C22_Witness ==
  /\ last.op = "answer" /\ last.ans = Str("x")
  /\ pending = NoPending /\ mode = "poly"
  /\ polyPoints = << >> /\ polySideFeet = << >>
  /\ selections = << >> /\ countOut = 0

\* C23: while a chat request is unresolved the send button and the input
\* are disabled, so at most one request is in flight at any time and no
\* second message can be submitted before the first has resolved.
C23_OneRequestInFlight ==
  /\ chat.inflight <= 1
  /\ chat.inflight > 0 => chat.disabled

\* C24: provided every relay call resolves or rejects, every non-empty chat
\* message submitted is followed by exactly one assistant message, the
\* reply or a stock sentence or failure notice, and the controls are
\* enabled again afterwards: at every moment each message sent has either
\* its one answer or its request in flight, the controls are disabled only
\* while a request is in flight, and the n-th message sent eventually has
\* its answer with the controls enabled.
C24_Accounted ==
  /\ chat.sent = chat.replies + chat.inflight
  /\ chat.disabled => chat.inflight > 0
  /\ last.op \in { "chatreply", "chaterror" } => last.out \in { "reply", "fallback", "notice" }

C24_EveryMessageAnswered ==
  /\ []C24_Accounted
  /\ \A n \in 1..MaxChatMsgs :
        (chat.sent >= n) ~> (chat.replies >= n /\ (chat.inflight = 0 => ~chat.disabled))
  /\ (chat.inflight > 0) ~> (chat.inflight = 0 /\ ~chat.disabled)

\* C24 witness: the form build sent a message, the call failed, the notice
\* is in the log and the controls are enabled again.
C24_Witness ==
  /\ chat.build = "form" /\ chat.host = "server"
  /\ last.op = "chaterror" /\ last.out = "notice"
  /\ chat.sent = 1 /\ chat.replies = 1 /\ chat.inflight = 0 /\ ~chat.disabled

\* C25: the relay handler sends exactly one response per request, either
\* status 200 with a string reply or a non-2xx status with an error field;
\* a method other than POST, a missing or non-string message, a missing API
\* key, an upstream result that is not OK and a thrown exception each give
\* a non-2xx error response, never a 200.
C25_Non2xx(r) == r.status < 200 \/ r.status > 299

C25_OneWellFormedResponse ==
  /\ Len(relay.sent) <= 1
  /\ relay.phase = "done" =>
        /\ Len(relay.sent) = 1
        /\ LET r == relay.sent[1]
           IN  /\ \/ r.status = 200 /\ r.field = "reply" /\ r.reply \in {"model", "stock"}
                  \/ C25_Non2xx(r) /\ r.field = "error"
               /\ ( \/ relay.req.method # "POST"
                    \/ relay.req.body # "text"
                    \/ ~relay.req.key
                    \/ relay.up \in {"error", "errorgarbage", "reject"} )
                  => C25_Non2xx(r) /\ r.field = "error"

\* C26: when writing the project list fails during a project save (the
\* store is full), nothing changes: every stored project list and the
\* ledger are as before, and the user gets a notice, not an uncaught
\* exception.
C26_FailedSaveChangesNothing ==
  [][ ( last'.op = "acctsave" /\ last'.ans.name # "" /\ last'.ans.full )
        => /\ acct'.stores = acct.stores
           /\ ledger' = ledger
           /\ last'.out = "alert" ]_vars

\* C28: a project is written only to the list of the account signed in
\* when the save is confirmed, or to the anonymous list when nobody is
\* signed in; and the list shown is always the list of the user signed in
\* now (when signed out: no cards, or the anonymous list).
C28_ShownIsCurrentUsers ==
  IF acct.session = NoUser
    THEN acct.shown.list \in { << >>, acct.stores[Guest] }
  ELSE acct.shown.list = acct.stores[acct.session]

C28_SavedToSignedInOwner ==
  /\ []C28_ShownIsCurrentUsers
  /\ [][ ( last'.op = "acctsave" /\ acct'.stores # acct.stores )
          => \A o \in (Accounts \cup { Guest }) \ { OwnerOf(acct.session) } :
               acct'.stores[o] = acct.stores[o] ]_vars

\* C27: a project saved while an image is on the canvas and whose state
\* carries no blueprint is saved only after the user was warned, for that
\* image, that it is too large to save with projects.
C27_NoSilentDrop ==
  [][ ( last'.op = "save" /\ projects' # projects
        /\ bp.img # NoUrl
        /\ projects'[Len(projects')].blueprint = NoUrl )
        => bp.img \in bp.warned ]_vars

\* C29: every point in the geometry of every selection of the ledger is a
\* unit-space point, both coordinates in [0,1] (0..NormDen here), kept in
\* the selection's `geo`; no selection keeps pixel geometry instead.
C29_PointsOf(g) ==
  IF g = Undef THEN {}
  ELSE IF "points" \in DOMAIN g THEN { g.points[i] : i \in 1..Len(g.points) }
  ELSE { g[f] : f \in DOMAIN g \ { "r" } }

C29_UnitGeometry(s) ==
  /\ "geo" \in DOMAIN s
  /\ "draw" \notin DOMAIN s
  /\ \A q \in C29_PointsOf(s.geo) :
       q[1] \in 0..NormDen /\ q[2] \in 0..NormDen

C29_StoredPointsAreUnitSpace ==
  \A i \in 1..Len(selections) : C29_UnitGeometry(selections[i])

\* C30: the unit-space points of a rectangle, circle or triangle pushed
\* when its last length is given are the pixel points the handler was
\* called with, divided by the canvas size in effect at that pointer event
\* (and clamped); a resize while the length modal is open changes none.
C30_NormAt(p, size) ==
  << Clamp01((p[1] * NormDen) \div Max(1, size[1])),
     Clamp01((p[2] * NormDen) \div Max(1, size[2])) >>

C30_StoredPoints(s) ==
  IF s.type = "rect" THEN << s.geo.p1, s.geo.p2 >>
  ELSE IF s.type = "circle" THEN << s.geo.c >>
  ELSE << s.geo.a, s.geo.b, s.geo.c >>

C30_PointsAtEventSize ==
  [][ ( ModalBusy /\ Len(selections') = Len(selections) + 1 )
        => LET s == selections'[Len(selections')]
               q == C30_StoredPoints(s)
           IN  \A i \in 1..Len(q) :
                 q[i] = C30_NormAt(pending.pts[i], pending.size) ]_vars

\* C31: a window resize leaves the in-progress pixel coordinates (drag
\* start and end, circle centre and edge, triangle and polygon points), the
\* drag flag, the mode, the ledger and a suspended handler as they were; it
\* changes the canvas size only.
C31_ResizeKeepsDraft ==
  [][ last'.op = "resize"
        => /\ UNCHANGED << capture, mode, ledger, pending >>
           /\ canvas' = << last'.ans.w, last'.ans.h >> ]_vars

C31_Witness ==
  /\ last.op = "resize"
  /\ canvas # << CanvasW, CanvasH >>
  /\ isDragging /\ dragStart # NoPoint

\* C32: while no handler is running, a triangle in progress has 0, 1 or 2
\* points; a triangle is appended only by the measurement step the third
\* click started, from three points; and when that step ends, committed or
\* cancelled, no point is in progress.
C32_TriStep(k) == k \in {"triB", "triH"}

C32_TrianglePoints ==
  /\ [](~Blocked => Len(triPoints) \in 0..2)
  /\ [][ ( Len(selections') = Len(selections) + 1
           /\ selections'[Len(selections')].type = "tri" )
         => /\ pending.k = "triH"
            /\ Len(IF variant = "legacy" THEN triPoints ELSE pending.pts) = 3 ]_vars
  /\ [][ ( C32_TriStep(pending.k) /\ pending'.k = "none" )
         => Len(triPoints') = 0 ]_vars

\* C33: in the polygon build, whenever no length prompt is pending, the
\* draft holds one side length for every pin after the first:
\* Len(polySideFeet) = max(0, Len(polyPoints) - 1).
C33_SidesMatchPins ==
  pending.k = "none" => Len(polySideFeet) = Max(0, Len(polyPoints) - 1)

\* C34: while a length modal is open, nothing but its own OK or Cancel
\* changes it: a handler that asks for a length meanwhile gets null and the
\* open modal stays as it is.  OK with an accepted (positive) length and
\* Cancel resolve it once: it is gone afterwards, or the handler has gone
\* on to its next prompt; OK with a rejected entry leaves it open.
C34_Accepted(inp) ==
  /\ inp.t = "ftin"
  /\ inp.feet.t = "num" /\ inp.feet.v >= 0
  /\ inp.inches.t = "num" /\ inp.inches.v \in 0..MaxInches
  /\ inp.feet.v * InchesPerFoot + inp.inches.v > 0

C34_OneModalAtATime ==
  [][ ModalBusy =>
        IF last'.op # "answer" THEN pending' = pending
        ELSE IF last'.ans = CancelAns \/ C34_Accepted(last'.ans)
          THEN pending' = NoPending \/ pending'.k # pending.k
        ELSE pending' = pending ]_vars

C34_Witness ==
  /\ last.op = "click"
  /\ pending.k = "triB" /\ pending.modal
  /\ Len(triPoints) = 1

\* C35: once no file read and no image decode is pending, the image on
\* the canvas is the latest one chosen or imported and the data URL a
\* project would carry is that image's (none when it is over the size
\* limit); and a data URL that is set always belongs to the image shown.
C35_LatestChoiceWins ==
  /\ ( bp.reads = {} /\ bp.loads = {} )
       => /\ bp.img = bp.picked.name
          /\ blueprint = IF bp.picked.persist THEN bp.picked.name ELSE NoUrl
  /\ blueprint # NoUrl => blueprint = bp.img

\* C36: every selection of the ledger has an area above zero, whatever was
\* drawn and whatever project was loaded.
C36_AreasArePositive ==
  \A i \in 1..Len(selections) : selections[i].areaSqFt > 0

\* C37: a record of the user store is never overwritten and never lost:
\* once a name is registered, its salt and hash stay as they are.
C37_RegisteredStaysRegistered ==
  [][ \A u \in Accounts :
        acct.users[u] # NoRec => acct'.users[u] = acct.users[u] ]_vars

\* C38: a session begins only for a user who is in the user store, and only
\* when the password entered is the one of the stored record or the user
\* has just been registered; a login or a registration that is turned down
\* leaves the session and the user store as they were; after a logout
\* nobody is signed in.
C38_SessionOnlyForStoredUser ==
  [][ /\ (acct'.session # acct.session /\ acct'.session # NoUser) =>
           /\ acct'.users[acct'.session] # NoRec
           /\ \/ last'.op = "register"
              \/ /\ last'.op = "login"
                 /\ last'.ans.pw = acct'.users[acct'.session].pw
      /\ (last'.op \in { "login", "register" } /\ last'.out = "alert") =>
           /\ acct'.session = acct.session
           /\ acct'.users = acct.users
      /\ last'.op = "signout" => acct'.session = NoUser ]_vars

====
